---- MODULE Spec2Model ----
(***************************************************************************)
(* Figgie market engine (engine.py): order book, action validator and      *)
(* executor, simultaneous-tick scheduler (run_game) and scorer.            *)
(***************************************************************************)
EXTENDS Integers, Sequences, FiniteSets, TLC

(***************************************************************************)
(* Bounds of the model.                                                    *)
(***************************************************************************)
\* the ticks in which the modelled policies do anything but pass
ActiveTicks == {0, 1}
\* non-pass submissions of all policies together over one round
MaxMoves == 3

(***************************************************************************)
(* Program constants (engine.py 47-59).                                    *)
(***************************************************************************)
SUITS == <<"spades", "clubs", "hearts", "diamonds">>
BLACK_SUITS == <<"spades", "clubs">>
RED_SUITS == <<"hearts", "diamonds">>
\* player counts that let three players through
VALID_PLAYER_COUNTS_WithThree == {3, 4, 5}
VALID_PLAYER_COUNTS == {4, 5}
STARTING_MONEY == 350
POT == 200
\* a count list with a second 12 in place of a 10
CARDS_PER_SUIT_OPTIONS_TwoTwelves == <<8, 10, 12, 12>>
CARDS_PER_SUIT_OPTIONS == <<8, 10, 10, 12>>
CARD_BONUS == 10
MAX_TICKS == 200
CONSECUTIVE_PASS_LIMIT == 3

\* Python's None where an integer is expected (OrderBook.last_trade_price)
None == -1

Range(s) == {s[i] : i \in DOMAIN s}
SuitSet == Range(SUITS)

RECURSIVE SumOver(_, _)
\* sum(f[x] for x in S)
SumOver(f, S) ==
  IF S = {} THEN 0
  ELSE LET x == CHOOSE y \in S : TRUE IN f[x] + SumOver(f, S \ {x})

RECURSIVE SumPlayers(_, _)
\* sum(f[pid] for pid in range(n))
SumPlayers(f, n) == IF n <= 0 THEN 0 ELSE f[n - 1] + SumPlayers(f, n - 1)

\* get_ante: 50 for 4 players, 40 for 5, ValueError (-1 here) otherwise
get_ante(n) == IF n = 4 THEN 50 ELSE IF n = 5 THEN 40 ELSE -1

(***************************************************************************)
(* Quote and OrderBook.                                                    *)
(***************************************************************************)
\* Quote(): price 0, player_id -1
EmptyQuote == [price |-> 0, player_id |-> -1]
Quote(p, pid) == [price |-> p, player_id |-> pid]
Quote_is_valid(q) == q.price > 0 /\ q.player_id >= 0

\* OrderBook(suit): empty bid and ask, no last trade price
NewOrderBook == [bid |-> EmptyQuote, ask |-> EmptyQuote, last_trade_price |-> None]
\* reset_quotes that resets the last trade price too
reset_quotes_ForgetsLastTrade(book) == NewOrderBook
\* OrderBook.reset_quotes
reset_quotes(book) == [book EXCEPT !.bid = EmptyQuote, !.ask = EmptyQuote]

\* FiggieGame(num_players=n) after __post_init__
FiggieGame(n) ==
  [num_players |-> n, hands |-> <<>>, money |-> <<>>, goal_suit |-> "",
   suit_counts |-> <<>>, books |-> [s \in SuitSet |-> NewOrderBook],
   trades |-> <<>>, current_tick |-> 0, game_over |-> FALSE,
   final_scores |-> <<>>]

(***************************************************************************)
(* Deck and deal.                                                          *)
(***************************************************************************)
\* the outcome of random.shuffle(counts): CARDS_PER_SUIT_OPTIONS rotated by r
ShuffledCounts(r) == [i \in 1..4 |-> CARDS_PER_SUIT_OPTIONS[((i - 1 + r) % 4) + 1]]

\* create_deck that takes the 12-card suit itself as the goal suit
create_deck_GoalIsTwelveCardSuit(counts) ==
  LET suit_counts == [s \in SuitSet |->
                        counts[CHOOSE i \in 1..4 : SUITS[i] = s]]
      twelve_card_suit == SUITS[CHOOSE i \in 1..4 :
                                  /\ suit_counts[SUITS[i]] = 12
                                  /\ \A j \in 1..(i-1) : suit_counts[SUITS[j]] # 12]
  IN  <<suit_counts, twelve_card_suit>>

\* create_deck for the shuffled count list counts: <<suit_counts, goal_suit>>
create_deck(counts) ==
  LET suit_counts == [s \in SuitSet |->
                        counts[CHOOSE i \in 1..4 : SUITS[i] = s]]
      twelve_card_suit == SUITS[CHOOSE i \in 1..4 :
                                  /\ suit_counts[SUITS[i]] = 12
                                  /\ \A j \in 1..(i-1) : suit_counts[SUITS[j]] # 12]
      same_color == IF twelve_card_suit \in Range(BLACK_SUITS)
                    THEN BLACK_SUITS ELSE RED_SUITS
      goal_suit == same_color[CHOOSE i \in 1..2 :
                                /\ same_color[i] # twelve_card_suit
                                /\ \A j \in 1..(i-1) : same_color[j] = twelve_card_suit]
  IN  <<suit_counts, goal_suit>>

\* deck.extend([suit] * count) over the suits in SUITS order
FlatDeck(suit_counts) ==
  LET n1 == suit_counts[SUITS[1]]
      n2 == n1 + suit_counts[SUITS[2]]
      n3 == n2 + suit_counts[SUITS[3]]
      n4 == n3 + suit_counts[SUITS[4]]
  IN  [i \in 1..n4 |-> IF i <= n1 THEN SUITS[1]
                       ELSE IF i <= n2 THEN SUITS[2]
                       ELSE IF i <= n3 THEN SUITS[3] ELSE SUITS[4]]

\* an outcome of random.shuffle(deck): the deck as built, cut after its last
\* c cards (they move to the front)
CutDeck(deck, c) ==
  [i \in 1..Len(deck) |-> deck[((i - 1 - c) % Len(deck)) + 1]]

\* an outcome of random.shuffle(deck): the order in which round-robin dealing
\* to n players hands out the deck as built in contiguous blocks
BlockedDeck(deck, n) ==
  LET cpp == Len(deck) \div n
  IN  [i \in 1..Len(deck) |->
         IF i <= cpp * n
         THEN deck[((i - 1) % n) * cpp + ((i - 1) \div n) + 1]
         ELSE deck[i]]

\* deal_cards that deals the whole deck, the cards beyond
\* cards_per_player * num_players included
deal_cards_DealsWholeDeck(deck, n) ==
  [p \in 0..(n - 1) |->
    [s \in SuitSet |->
      Cardinality({i \in 1..Len(deck) : (i - 1) % n = p /\ deck[i] = s})]]

\* deal_cards applied to the shuffled deck: hands[player][suit]
deal_cards(deck, n) ==
  LET cards_per_player == Len(deck) \div n
  IN  [p \in 0..(n - 1) |->
        [s \in SuitSet |->
          Cardinality({i \in 1..(cards_per_player * n) :
                         (i - 1) % n = p /\ deck[i] = s})]]

(***************************************************************************)
(* Actions as returned by a policy.  A Python value is a record: isdict    *)
(* says whether it is a dictionary; type, suit and price are what          *)
(* action.get(...) returns ("None" for a missing key); price_is_int is     *)
(* isinstance(price, int).                                                 *)
(***************************************************************************)
PassAction ==
  [isdict |-> TRUE, type |-> "pass", suit |-> "None", price |-> 0, price_is_int |-> FALSE]
BidAction(s, p) ==
  [isdict |-> TRUE, type |-> "bid", suit |-> s, price |-> p, price_is_int |-> TRUE]
AskAction(s, p) ==
  [isdict |-> TRUE, type |-> "ask", suit |-> s, price |-> p, price_is_int |-> TRUE]
BuyAction(s) ==
  [isdict |-> TRUE, type |-> "buy", suit |-> s, price |-> 0, price_is_int |-> FALSE]
SellAction(s) ==
  [isdict |-> TRUE, type |-> "sell", suit |-> s, price |-> 0, price_is_int |-> FALSE]
\* a return value that is not a dictionary (None, a string, a list, ...)
NotADict ==
  [isdict |-> FALSE, type |-> "None", suit |-> "None", price |-> 0, price_is_int |-> FALSE]
\* a dictionary whose type is not one of the five kinds
UnknownTypeAction ==
  [isdict |-> TRUE, type |-> "offer", suit |-> "spades", price |-> 1, price_is_int |-> TRUE]

\* (is_valid, error); the error texts are the source's with the interpolated
\* values left out
Result(v, e) == [valid |-> v, error |-> e]

\* validate_bid without the check against the resting ask (242-248)
validate_bid_NoCrossCheck(game, player_id, action) ==
  LET book == game.books[action.suit]
      price == action.price
  IN  IF ~action.price_is_int \/ price <= 0
      THEN Result(FALSE, "Bid price must be a positive integer")
      ELSE IF price > game.money[player_id]
      THEN Result(FALSE, "Cannot bid, not enough money")
      ELSE IF Quote_is_valid(book.bid) /\ price <= book.bid.price
      THEN Result(FALSE, "Must bid higher than current best bid")
      ELSE Result(TRUE, "")

\* validate_bid without the check against the player's money (237-238)
validate_bid_NoMoneyCheck(game, player_id, action) ==
  LET book == game.books[action.suit]
      price == action.price
  IN  IF ~action.price_is_int \/ price <= 0
      THEN Result(FALSE, "Bid price must be a positive integer")
      ELSE IF Quote_is_valid(book.bid) /\ price <= book.bid.price
      THEN Result(FALSE, "Must bid higher than current best bid")
      ELSE IF Quote_is_valid(book.ask) /\ price >= book.ask.price
      THEN Result(FALSE, "Bid would cross ask. Use 'buy' instead.")
      ELSE Result(TRUE, "")

\* validate_action 233-248: the bid branch
\* validate_bid without the check against the resting bid (240-241)
validate_bid_NoHigherCheck(game, player_id, action) ==
  LET book == game.books[action.suit]
      price == action.price
  IN  IF ~action.price_is_int \/ price <= 0
      THEN Result(FALSE, "Bid price must be a positive integer")
      ELSE IF price > game.money[player_id]
      THEN Result(FALSE, "Cannot bid, not enough money")
      ELSE IF Quote_is_valid(book.ask) /\ price >= book.ask.price
      THEN Result(FALSE, "Bid would cross ask. Use 'buy' instead.")
      ELSE Result(TRUE, "")

validate_bid(game, player_id, action) ==
  LET book == game.books[action.suit]
      price == action.price
  IN  IF ~action.price_is_int \/ price <= 0
      THEN Result(FALSE, "Bid price must be a positive integer")
      ELSE IF price > game.money[player_id]
      THEN Result(FALSE, "Cannot bid, not enough money")
      ELSE IF Quote_is_valid(book.bid) /\ price <= book.bid.price
      THEN Result(FALSE, "Must bid higher than current best bid")
      ELSE IF Quote_is_valid(book.ask) /\ price >= book.ask.price
      THEN Result(FALSE, "Bid would cross ask. Use 'buy' instead.")
      ELSE Result(TRUE, "")

\* validate_ask without the check against the resting bid (259-265)
validate_ask_NoCrossCheck(game, player_id, action) ==
  LET book == game.books[action.suit]
      price == action.price
  IN  IF ~action.price_is_int \/ price <= 0
      THEN Result(FALSE, "Ask price must be a positive integer")
      ELSE IF game.hands[player_id][action.suit] <= 0
      THEN Result(FALSE, "Cannot ask, don't have any")
      ELSE IF Quote_is_valid(book.ask) /\ price >= book.ask.price
      THEN Result(FALSE, "Must ask lower than current best ask")
      ELSE Result(TRUE, "")

\* validate_ask without the check of the player's hand (254-255)
validate_ask_NoCardCheck(game, player_id, action) ==
  LET book == game.books[action.suit]
      price == action.price
  IN  IF ~action.price_is_int \/ price <= 0
      THEN Result(FALSE, "Ask price must be a positive integer")
      ELSE IF Quote_is_valid(book.ask) /\ price >= book.ask.price
      THEN Result(FALSE, "Must ask lower than current best ask")
      ELSE IF Quote_is_valid(book.bid) /\ price <= book.bid.price
      THEN Result(FALSE, "Ask would cross bid. Use 'sell' instead.")
      ELSE Result(TRUE, "")

\* validate_action 250-265: the ask branch
validate_ask(game, player_id, action) ==
  LET book == game.books[action.suit]
      price == action.price
  IN  IF ~action.price_is_int \/ price <= 0
      THEN Result(FALSE, "Ask price must be a positive integer")
      ELSE IF game.hands[player_id][action.suit] <= 0
      THEN Result(FALSE, "Cannot ask, don't have any")
      ELSE IF Quote_is_valid(book.ask) /\ price >= book.ask.price
      THEN Result(FALSE, "Must ask lower than current best ask")
      ELSE IF Quote_is_valid(book.bid) /\ price <= book.bid.price
      THEN Result(FALSE, "Ask would cross bid. Use 'sell' instead.")
      ELSE Result(TRUE, "")

\* validate_buy without the check against buying one's own ask (270-271)
validate_buy_AllowsSelfTrade(game, player_id, action) ==
  LET book == game.books[action.suit]
  IN  IF ~Quote_is_valid(book.ask)
      THEN Result(FALSE, "No ask available")
      ELSE IF book.ask.price > game.money[player_id]
      THEN Result(FALSE, "Cannot afford")
      ELSE Result(TRUE, "")

\* validate_action 267-277: the buy branch
validate_buy(game, player_id, action) ==
  LET book == game.books[action.suit]
  IN  IF ~Quote_is_valid(book.ask)
      THEN Result(FALSE, "No ask available")
      ELSE IF book.ask.player_id = player_id
      THEN Result(FALSE, "Cannot buy from yourself")
      ELSE IF book.ask.price > game.money[player_id]
      THEN Result(FALSE, "Cannot afford")
      ELSE Result(TRUE, "")

\* validate_sell without the check against selling to one's own bid (282-283)
validate_sell_AllowsSelfTrade(game, player_id, action) ==
  LET book == game.books[action.suit]
  IN  IF ~Quote_is_valid(book.bid)
      THEN Result(FALSE, "No bid available")
      ELSE IF game.hands[player_id][action.suit] <= 0
      THEN Result(FALSE, "Cannot sell, don't have any")
      ELSE Result(TRUE, "")

\* validate_action 279-286: the sell branch
validate_sell(game, player_id, action) ==
  LET book == game.books[action.suit]
  IN  IF ~Quote_is_valid(book.bid)
      THEN Result(FALSE, "No bid available")
      ELSE IF book.bid.player_id = player_id
      THEN Result(FALSE, "Cannot sell to yourself")
      ELSE IF game.hands[player_id][action.suit] <= 0
      THEN Result(FALSE, "Cannot sell, don't have any")
      ELSE Result(TRUE, "")

\* validate_action letting an unknown action type through (216-222)
validate_action_AcceptsUnknownType(game, player_id, action) ==
  IF ~action.isdict THEN Result(FALSE, "Action must be a dictionary")
  ELSE IF action.type \notin {"bid", "ask", "buy", "sell", "pass"}
  THEN Result(TRUE, "")
  ELSE IF action.type = "pass" THEN Result(TRUE, "")
  ELSE IF action.suit \notin SuitSet THEN Result(FALSE, "Invalid suit")
  ELSE IF action.type = "bid" THEN validate_bid(game, player_id, action)
  ELSE IF action.type = "ask" THEN validate_ask(game, player_id, action)
  ELSE IF action.type = "buy" THEN validate_buy(game, player_id, action)
  ELSE IF action.type = "sell" THEN validate_sell(game, player_id, action)
  ELSE Result(FALSE, "Unknown validation error")

\* validate_action(game, player_id, action): (is_valid, error_message)
validate_action(game, player_id, action) ==
  IF ~action.isdict THEN Result(FALSE, "Action must be a dictionary")
  ELSE IF action.type \notin {"bid", "ask", "buy", "sell", "pass"}
  THEN Result(FALSE, "Invalid action type")
  ELSE IF action.type = "pass" THEN Result(TRUE, "")
  ELSE IF action.suit \notin SuitSet THEN Result(FALSE, "Invalid suit")
  ELSE IF action.type = "bid" THEN validate_bid(game, player_id, action)
  ELSE IF action.type = "ask" THEN validate_ask(game, player_id, action)
  ELSE IF action.type = "buy" THEN validate_buy(game, player_id, action)
  ELSE IF action.type = "sell" THEN validate_sell(game, player_id, action)
  ELSE Result(FALSE, "Unknown validation error")

\* a Trade record with buyer and seller exchanged
Trade_SwapsParties(s, p, b, sl, t) ==
  [suit |-> s, price |-> p, buyer_id |-> sl, seller_id |-> b, tick |-> t]

\* Trade(suit, price, buyer_id, seller_id, tick)
Trade(s, p, b, sl, t) ==
  [suit |-> s, price |-> p, buyer_id |-> b, seller_id |-> sl, tick |-> t]

\* the clearing loop left out: the quotes stay
ClearAllBooks_KeepsQuotes(books) == books

\* for s in SUITS: game.books[s].reset_quotes()
ClearAllBooks(books) == [s \in SuitSet |-> reset_quotes(books[s])]

\* the seller is not credited
transfer_money_SellerUnpaid(money, buyer_id, seller_id, price) ==
  [money EXCEPT ![buyer_id] = @ - price]

\* game.money[buyer_id] -= price; game.money[seller_id] += price
transfer_money(money, buyer_id, seller_id, price) ==
  LET money1 == [money EXCEPT ![buyer_id] = @ - price]
  IN  [money1 EXCEPT ![seller_id] = @ + price]

\* the seller keeps the card
transfer_card_SellerKeepsCard(hands, suit, buyer_id, seller_id) ==
  [hands EXCEPT ![buyer_id][suit] = @ + 1]

\* game.hands[buyer_id][suit] += 1; game.hands[seller_id][suit] -= 1
transfer_card(hands, suit, buyer_id, seller_id) ==
  LET hands1 == [hands EXCEPT ![buyer_id][suit] = @ + 1]
  IN  [hands1 EXCEPT ![seller_id][suit] = @ - 1]

\* the trade branch clearing the traded suit's book only
ExecuteTrade_ClearsTradedSuitOnly(game, suit, buyer_id, seller_id, price) ==
  LET trade == Trade(suit, price, buyer_id, seller_id, game.current_tick)
      books1 == [game.books EXCEPT ![suit].last_trade_price = price]
  IN  [game |-> [game EXCEPT
                   !.money = transfer_money(game.money, buyer_id, seller_id, price),
                   !.hands = transfer_card(game.hands, suit, buyer_id, seller_id),
                   !.trades = Append(@, trade),
                   !.books = [books1 EXCEPT ![suit] = reset_quotes(@)]],
       trade |-> <<trade>>]

\* the trade branch putting the new Trade at the head of the history
ExecuteTrade_PrependsTrade(game, suit, buyer_id, seller_id, price) ==
  LET trade == Trade(suit, price, buyer_id, seller_id, game.current_tick)
      books1 == [game.books EXCEPT ![suit].last_trade_price = price]
  IN  [game |-> [game EXCEPT
                   !.money = transfer_money(game.money, buyer_id, seller_id, price),
                   !.hands = transfer_card(game.hands, suit, buyer_id, seller_id),
                   !.trades = <<trade>> \o @,
                   !.books = ClearAllBooks(books1)],
       trade |-> <<trade>>]

\* the trade branch shared by buy and sell (execute_action 317-336, 344-363)
ExecuteTrade(game, suit, buyer_id, seller_id, price) ==
  LET trade == Trade(suit, price, buyer_id, seller_id, game.current_tick)
      books1 == [game.books EXCEPT ![suit].last_trade_price = price]
  IN  [game |-> [game EXCEPT
                   !.money = transfer_money(game.money, buyer_id, seller_id, price),
                   !.hands = transfer_card(game.hands, suit, buyer_id, seller_id),
                   !.trades = Append(@, trade),
                   !.books = ClearAllBooks(books1)],
       trade |-> <<trade>>]

\* execute_action(game, player_id, action): the game after the action and the
\* returned Trade (<<trade>>) or None (<<>>)
\* execute_action whose bid and ask replace the suit's whole pair of quotes
execute_action_QuoteResetsOtherSide(game, player_id, action) ==
  IF action.type = "pass" THEN [game |-> game, trade |-> <<>>]
  ELSE
    LET suit == action.suit
        book == game.books[suit]
    IN
    IF action.type = "bid" THEN
      [game |-> [game EXCEPT !.books[suit].bid = Quote(action.price, player_id),
                             !.books[suit].ask = EmptyQuote],
       trade |-> <<>>]
    ELSE IF action.type = "ask" THEN
      [game |-> [game EXCEPT !.books[suit].ask = Quote(action.price, player_id),
                             !.books[suit].bid = EmptyQuote],
       trade |-> <<>>]
    ELSE IF action.type = "buy" THEN
      ExecuteTrade(game, suit, player_id, book.ask.player_id, book.ask.price)
    ELSE IF action.type = "sell" THEN
      ExecuteTrade(game, suit, book.bid.player_id, player_id, book.bid.price)
    ELSE [game |-> game, trade |-> <<>>]

execute_action(game, player_id, action) ==
  IF action.type = "pass" THEN [game |-> game, trade |-> <<>>]
  ELSE
    LET suit == action.suit
        book == game.books[suit]
    IN
    IF action.type = "bid" THEN
      [game |-> [game EXCEPT !.books[suit].bid = Quote(action.price, player_id)],
       trade |-> <<>>]
    ELSE IF action.type = "ask" THEN
      [game |-> [game EXCEPT !.books[suit].ask = Quote(action.price, player_id)],
       trade |-> <<>>]
    ELSE IF action.type = "buy" THEN
      ExecuteTrade(game, suit, player_id, book.ask.player_id, book.ask.price)
    ELSE IF action.type = "sell" THEN
      ExecuteTrade(game, suit, book.bid.player_id, player_id, book.bid.price)
    ELSE [game |-> game, trade |-> <<>>]

(***************************************************************************)
(* Scorer.                                                                 *)
(***************************************************************************)
\* the leftover units go to the winners with the highest ids
winner_share_ExtraToHighestIds(remainder, winners, pid) ==
  LET nw == Cardinality(winners)
      remainder_per_winner == IF nw > 0 THEN remainder \div nw ELSE 0
      leftover == IF nw > 0 THEN remainder % nw ELSE 0
      taken_before == Cardinality({w \in winners : w > pid})
  IN  IF pid \in winners
      THEN remainder_per_winner + (IF leftover - taken_before > 0 THEN 1 ELSE 0)
      ELSE 0

\* the leftover units are never handed out
winner_share_DropsLeftover(remainder, winners, pid) ==
  IF pid \in winners THEN remainder \div Cardinality(winners) ELSE 0

\* calculate_scores 385-397: what player pid receives of the remainder; the
\* loop runs over the ids in ascending order and a winner takes one unit of
\* the leftover while any is left
winner_share(remainder, winners, pid) ==
  LET nw == Cardinality(winners)
      remainder_per_winner == IF nw > 0 THEN remainder \div nw ELSE 0
      leftover == IF nw > 0 THEN remainder % nw ELSE 0
      taken_before == Cardinality({w \in winners : w < pid})
  IN  IF pid \in winners
      THEN remainder_per_winner + (IF leftover - taken_before > 0 THEN 1 ELSE 0)
      ELSE 0

\* calculate_scores 373-382: goal cards, winners and remainder
goal_cards(game) ==
  [pid \in 0..(game.num_players - 1) |-> game.hands[pid][game.goal_suit]]
winners(game) ==
  LET gc == goal_cards(game)
      max_cards == CHOOSE m \in Range(gc) : \A pid \in DOMAIN gc : gc[pid] <= m
  IN  {pid \in DOMAIN gc : gc[pid] = max_cards}
remainder(game) ==
  LET gc == goal_cards(game)
  IN  POT - SumPlayers([pid \in DOMAIN gc |-> gc[pid] * CARD_BONUS], game.num_players)

\* calculate_scores with the net from trading left out (390)
calculate_scores_NoTradingNet(game) ==
  [pid \in 0..(game.num_players - 1) |->
     goal_cards(game)[pid] * CARD_BONUS
     + winner_share(remainder(game), winners(game), pid)]

\* calculate_scores(game): final_scores[pid]
calculate_scores(game) ==
  [pid \in 0..(game.num_players - 1) |->
     (game.money[pid] - STARTING_MONEY)
     + goal_cards(game)[pid] * CARD_BONUS
     + winner_share(remainder(game), winners(game), pid)]

(***************************************************************************)
(* The view handed to a policy.                                            *)
(***************************************************************************)
\* OrderBook.to_dict 101-110: a quote that is not valid is shown as None (the
\* empty sequence here), a valid one as its price and player
QuoteView(q) ==
  IF Quote_is_valid(q) THEN <<[price |-> q.price, player |-> q.player_id]>> ELSE <<>>
to_dict(book) ==
  [bid |-> QuoteView(book.bid),
   ask |-> QuoteView(book.ask),
   last_trade |-> book.last_trade_price]

\* get_game_state with the goal suit added to the view
get_game_state_ShowsGoalSuit(game, player_id) ==
  [position |-> player_id,
   hand |-> game.hands[player_id],
   money |-> game.money[player_id],
   books |-> [s \in SuitSet |-> to_dict(game.books[s])],
   trades |-> [i \in DOMAIN game.trades |->
                 [suit |-> game.trades[i].suit, price |-> game.trades[i].price,
                  buyer |-> game.trades[i].buyer_id,
                  seller |-> game.trades[i].seller_id,
                  tick |-> game.trades[i].tick]],
   num_players |-> game.num_players,
   tick |-> game.current_tick,
   goal_suit |-> game.goal_suit]

\* get_game_state(game, player_id) 184-208
get_game_state(game, player_id) ==
  [position |-> player_id,
   hand |-> game.hands[player_id],
   money |-> game.money[player_id],
   books |-> [s \in SuitSet |-> to_dict(game.books[s])],
   trades |-> [i \in DOMAIN game.trades |->
                 [suit |-> game.trades[i].suit, price |-> game.trades[i].price,
                  buyer |-> game.trades[i].buyer_id,
                  seller |-> game.trades[i].seller_id,
                  tick |-> game.trades[i].tick]],
   num_players |-> game.num_players,
   tick |-> game.current_tick]

(***************************************************************************)
(* The starter bot (main.py).  A confidence 0.3 + d * 0.1 capped at 0.8 is *)
(* kept as its step d (0..5); the card values are the integers the float   *)
(* arithmetic of get_card_value yields for each step; the comparisons of a *)
(* price with value * 1.2, 0.5, 0.8 or 1.5 are done in tenths.  A quote of *)
(* a view is <<>> for None and <<[price, player]>> otherwise.              *)
(***************************************************************************)
\* an action dictionary of type "offer"
OfferAction(s, p) ==
  [isdict |-> TRUE, type |-> "offer", suit |-> s, price |-> p, price_is_int |-> TRUE]
\* get_action raising KeyError on a key the view does not have
RaisesKeyError ==
  [isdict |-> FALSE, type |-> "KeyError", suit |-> "None", price |-> 0, price_is_int |-> FALSE]

\* same_color_suit
same_color_suit(suit) ==
  IF suit \in Range(BLACK_SUITS)
  THEN CHOOSE s \in Range(BLACK_SUITS) : s # suit
  ELSE CHOOSE s \in Range(RED_SUITS) : s # suit

\* the order of the suit names as Python strings
SuitNameOrder == <<"clubs", "diamonds", "hearts", "spades">>
SuitNameRank(s) == CHOOSE i \in 1..4 : SuitNameOrder[i] = s

\* hand_counts.sort(reverse=True): the suits by falling (count, suit)
hand_counts(hand) ==
  LET Before(a, b) == \/ hand[a] > hand[b]
                      \/ hand[a] = hand[b] /\ SuitNameRank(a) > SuitNameRank(b)
  IN  [i \in 1..4 |->
         CHOOSE s \in SuitSet : Cardinality({t \in SuitSet : Before(t, s)}) = i - 1]

\* estimate_goal_suit: the estimate and the step of the confidence
estimate_goal_suit(state) ==
  LET sorted == hand_counts(state.hand)
      max_count == state.hand[sorted[1]]
      second_count == state.hand[sorted[2]]
      d == max_count - second_count
  IN  [goal |-> same_color_suit(sorted[1]), step |-> IF d > 5 THEN 5 ELSE d]

\* int(10 + 25 * confidence) and max(1, int(5 * (1 - confidence))) by step
GoalCardValues == <<17, 20, 22, 25, 27, 30>>
OtherCardValues == <<3, 3, 2, 1, 1, 1>>
\* get_card_value
get_card_value(suit, estimated_goal, step) ==
  IF suit = estimated_goal THEN GoalCardValues[step + 1] ELSE OtherCardValues[step + 1]

\* should_buy
should_buy(state, suit, offer_price, estimated_goal, step) ==
  LET value == get_card_value(suit, estimated_goal, step)
  IN  IF suit = estimated_goal THEN 10 * offer_price < 12 * value
      ELSE 10 * offer_price < 5 * value

\* should_sell
should_sell(state, suit, bid_price, estimated_goal, step) ==
  LET value == get_card_value(suit, estimated_goal, step)
  IN  IF suit = estimated_goal
      THEN \/ state.hand[suit] > 3 /\ 10 * bid_price >= 8 * value
           \/ 10 * bid_price >= 15 * value
      ELSE 10 * bid_price >= 8 * value

\* the first suit of SUITS that is in S
FirstSuit(S) ==
  SUITS[CHOOSE i \in 1..4 : SUITS[i] \in S /\ \A j \in 1..(i - 1) : SUITS[j] \notin S]

\* get_action(state); luck is the draw of priority 5: 0 when random.random()
\* is at least 0.1, else the price random.randint(1, 5) returns
get_action(state, luck) ==
  IF ~({"hand", "money", "bids", "offers", "position"} \subseteq DOMAIN state)
  THEN \* 138-142: state["bids"], state["offers"]
       RaisesKeyError
  ELSE
  LET hand == state.hand
      money == state.money
      bids == state.bids
      offers == state.offers
      position == state.position
      est == estimate_goal_suit(state)
      goal == est.goal
      step == est.step
      \* priority 1 (148-154)
      buys == {suit \in SuitSet :
                 /\ offers[suit] # <<>>
                 /\ offers[suit][1].player # position
                 /\ suit = goal
                 /\ offers[suit][1].price <= money
                 /\ should_buy(state, suit, offers[suit][1].price, goal, step)}
      \* priority 2 (157-162)
      sells == {suit \in SuitSet :
                  /\ bids[suit] # <<>>
                  /\ bids[suit][1].player # position
                  /\ hand[suit] > 0
                  /\ should_sell(state, suit, bids[suit][1].price, goal, step)}
      \* priority 3 (165-181): the offer posted on a suit, if any
      offer_on(suit) ==
        LET our_value == get_card_value(suit, goal, step)
            new_price == offers[suit][1].price - 1
            min_price == IF bids[suit] # <<>> THEN bids[suit][1].price + 1 ELSE 1
        IN  IF suit = goal \/ hand[suit] <= 0 THEN <<>>
            ELSE IF offers[suit] = <<>>
            THEN <<OfferAction(suit, IF our_value + 2 > 5 THEN our_value + 2 ELSE 5)>>
            ELSE IF offers[suit][1].player # position
                    /\ new_price >= min_price /\ new_price >= our_value
            THEN <<OfferAction(suit, new_price)>>
            ELSE <<>>
      offered == {suit \in SuitSet : offer_on(suit) # <<>>}
      \* priority 4 (184-200): the bid posted on the estimated goal suit
      goal_value == get_card_value(goal, goal, step)
      bid_price == IF goal_value - 5 < money \div 4 THEN goal_value - 5 ELSE money \div 4
      new_bid == bids[goal][1].price + 1
      max_price == IF offers[goal] # <<>> THEN offers[goal][1].price - 1 ELSE money
      goal_bid ==
        IF money <= 50 THEN <<>>
        ELSE IF bids[goal] = <<>>
        THEN (IF bid_price > 0 THEN <<BidAction(goal, bid_price)>> ELSE <<>>)
        ELSE IF bids[goal][1].player # position
                /\ new_bid <= max_price /\ new_bid <= goal_value /\ new_bid <= money
        THEN <<BidAction(goal, new_bid)>>
        ELSE <<>>
      \* priority 5 (203-207)
      unbid == {suit \in SuitSet : bids[suit] = <<>> /\ suit # goal}
  IN  IF buys # {} THEN BuyAction(FirstSuit(buys))
      ELSE IF sells # {} THEN SellAction(FirstSuit(sells))
      ELSE IF offered # {} THEN offer_on(FirstSuit(offered))[1]
      ELSE IF goal_bid # <<>> THEN goal_bid[1]
      ELSE IF luck > 0 /\ money > 30 /\ unbid # {} THEN BidAction(FirstSuit(unbid), luck)
      ELSE PassAction

(***************************************************************************)
(* GameLog.  The timestamp log_setup takes from the clock is kept as the   *)
(* token "now".                                                            *)
(***************************************************************************)
\* GameLog()
GameLog ==
  [timestamp |-> "", num_players |-> 4, suit_counts |-> <<>>, goal_suit |-> "",
   initial_hands |-> <<>>, events |-> <<>>, final_hands |-> <<>>,
   final_money |-> <<>>, scores |-> <<>>]

\* GameLog.log_setup
log_setup(log, game) ==
  [log EXCEPT !.timestamp = "now",
              !.num_players = game.num_players,
              !.suit_counts = game.suit_counts,
              !.goal_suit = game.goal_suit,
              !.initial_hands = game.hands]

\* GameLog.log_tick: the error is recorded for an invalid action only
log_tick(log, tick, actions) ==
  LET action_record(a) ==
        IF a.is_valid
        THEN [player |-> a.player_id, action |-> a.action, valid |-> a.is_valid]
        ELSE [player |-> a.player_id, action |-> a.action, valid |-> a.is_valid,
              error |-> a.error]
      event == [type |-> "tick", tick |-> tick,
                actions |-> [i \in 1..Len(actions) |-> action_record(actions[i])]]
  IN  [log EXCEPT !.events = Append(@, event)]

\* GameLog.log_trade
log_trade(log, trade) ==
  LET event == [type |-> "trade", tick |-> trade.tick, suit |-> trade.suit,
                price |-> trade.price, buyer |-> trade.buyer_id,
                seller |-> trade.seller_id]
  IN  [log EXCEPT !.events = Append(@, event)]

\* GameLog.log_end
log_end(log, game) ==
  [log EXCEPT !.final_hands = game.hands,
              !.final_money = game.money,
              !.scores = game.final_scores]

(***************************************************************************)
(* run_game as a state machine.                                            *)
(***************************************************************************)
VARIABLES
  num_players,           \* len(player_modules)
  verbose,               \* the verbose argument
  game,                  \* the FiggieGame
  consecutive_all_pass,  \* run_game local
  outcomes,              \* what each policy did when polled in this tick
  player_actions,        \* run_game local: list of (player_id, action)
  idx,                   \* entries of player_actions resolved in this tick
  tick_actions,          \* run_game local: list of (player_id, action, is_valid, error)
  all_passed,            \* run_game local
  submitted,             \* non-pass policy outcomes so far in the round
  pc,                    \* position in run_game
  enable_logging,        \* the enable_logging argument
  game_log               \* run_game local: <<>> for None, else <<the GameLog>>

vars == <<num_players, verbose, game, consecutive_all_pass, outcomes,
          player_actions, idx, tick_actions, all_passed, submitted, pc,
          enable_logging, game_log>>

\* the suits the modelled policies act on
ActSuits == {SUITS[1], SUITS[2]}
\* the prices the modelled policies quote
Prices == {1, 2}
\* the outcomes of the two shuffles (of the counts, of the deck) the model
\* draws from: the counts rotated by rot, and the deck cut or blocked
Deals == {[rot |-> 2, blocked |-> FALSE, cut |-> 3],
          [rot |-> 3, blocked |-> TRUE, cut |-> 0]}

\* a policy that raises instead of returning
Raises ==
  [isdict |-> FALSE, type |-> "raise", suit |-> "None", price |-> 0, price_is_int |-> FALSE]

\* quotes and takes a policy can submit on a set of suits
MakerActions(suits) ==
  {BidAction(s, p) : s \in suits, p \in Prices}
  \cup {AskAction(s, p) : s \in suits, p \in Prices}
TakerActions(suits) ==
  {BuyAction(s) : s \in suits} \cup {SellAction(s) : s \in suits}
FaultOutcomes == {NotADict, UnknownTypeAction, Raises}

\* the non-pass outcomes of player_modules[player_id].get_action the model
\* draws from: seat 0 quotes on every acted suit, seat 1 quotes and takes on
\* the first suit, seat 2 takes on the first suit or misbehaves, and the
\* policies of the other seats always pass
PolicyOutcomes(player_id) ==
  IF player_id = 0 THEN MakerActions(ActSuits)
  ELSE IF player_id = 1 THEN MakerActions({SUITS[1]}) \cup TakerActions({SUITS[1]})
  ELSE IF player_id = 2 THEN TakerActions({SUITS[1]}) \cup FaultOutcomes
  ELSE {}

\* the player counts run_game is called with
PlayerCounts == 3..6

Init ==
  /\ num_players \in PlayerCounts
  /\ verbose \in BOOLEAN
  /\ game = FiggieGame(4)
  /\ consecutive_all_pass = 0
  /\ outcomes = <<>>
  /\ player_actions = <<>>
  /\ idx = 0
  /\ tick_actions = <<>>
  /\ all_passed = TRUE
  /\ submitted = 0
  /\ pc = "start"
  /\ enable_logging = FALSE
  /\ game_log = <<>>

\* run_game 505-509: the player count is checked first
RejectPlayerCount ==
  /\ pc = "start"
  /\ num_players \notin VALID_PLAYER_COUNTS
  /\ pc' = "ValueError"
  /\ UNCHANGED <<num_players, verbose, enable_logging, game_log,
                 game, consecutive_all_pass, outcomes,
                 player_actions, idx, tick_actions, all_passed, submitted>>

\* run_game 511-540: ante, game log, deck, deal, game state, entry into
\* tick 0; logging is the value of enable_logging and log2 the game log
\* afterwards
SetupOn(logging, log2) ==
  /\ pc = "start"
  /\ num_players \in VALID_PLAYER_COUNTS
  /\ \E d \in Deals :
       LET ante == get_ante(num_players)
           deck == create_deck(ShuffledCounts(d.rot))
           flat == FlatDeck(deck[1])
           shuffled == IF d.blocked THEN BlockedDeck(flat, num_players)
                       ELSE CutDeck(flat, d.cut)
           hands == deal_cards(shuffled, num_players)
       IN  game' = [FiggieGame(num_players) EXCEPT
                      !.suit_counts = deck[1],
                      !.goal_suit = deck[2],
                      !.hands = hands,
                      !.money = [i \in 0..(num_players - 1) |-> STARTING_MONEY - ante],
                      !.current_tick = 0]
  /\ log2 = IF logging THEN <<log_setup(GameLog, game')>> ELSE <<>>
  /\ consecutive_all_pass' = 0
  /\ outcomes' = <<>>
  /\ player_actions' = <<>>
  /\ pc' = "collect"
  /\ UNCHANGED <<num_players, verbose, enable_logging, idx, tick_actions,
                 all_passed, submitted>>

Setup == SetupOn(enable_logging, game_log')

\* polling that executes each action as soon as its policy returns it
Collect_ExecutesAtOnce ==
  /\ pc = "collect"
  /\ Len(player_actions) < num_players
  /\ LET player_id == Len(player_actions) IN
     \E o \in {PassAction} \cup (IF /\ submitted < MaxMoves
                                    /\ game.current_tick \in ActiveTicks
                                 THEN PolicyOutcomes(player_id) ELSE {}) :
       LET action == IF o.type = "raise" THEN PassAction ELSE o IN
       /\ outcomes' = Append(outcomes, o)
       /\ player_actions' = Append(player_actions,
                                   [player_id |-> player_id, action |-> action])
       /\ submitted' = IF o = PassAction THEN submitted ELSE submitted + 1
       /\ game' = IF validate_action(game, player_id, action).valid
                  THEN execute_action(game, player_id, action).game
                  ELSE game
  /\ UNCHANGED <<num_players, verbose, enable_logging, game_log, consecutive_all_pass, idx,
                 tick_actions, all_passed, pc>>

\* run_game 544-554: poll the next player; a raising policy counts as pass
Collect ==
  /\ pc = "collect"
  /\ Len(player_actions) < num_players
  /\ LET player_id == Len(player_actions) IN
     \E o \in {PassAction} \cup (IF /\ submitted < MaxMoves
                                    /\ game.current_tick \in ActiveTicks
                                 THEN PolicyOutcomes(player_id) ELSE {}) :
       LET action == IF o.type = "raise" THEN PassAction ELSE o IN
       /\ outcomes' = Append(outcomes, o)
       /\ player_actions' = Append(player_actions,
                                   [player_id |-> player_id, action |-> action])
       /\ submitted' = IF o = PassAction THEN submitted ELSE submitted + 1
  /\ UNCHANGED <<num_players, verbose, enable_logging, game_log,
                 game, consecutive_all_pass, idx,
                 tick_actions, all_passed, pc>>

\* a sequence rotated left by r
Rotate(seq, r) == [i \in 1..Len(seq) |-> seq[((i - 1 + r) % Len(seq)) + 1]]

\* the orders random.shuffle(player_actions) is drawn from: the rotations
\* that put each of the three acting seats first (the later seats only pass,
\* so the remaining rotations order the acting seats as the identity does)
Rotations == {0, 1, 2}
\* when every collected action is pass all orders resolve alike, and the
\* collected order stands for them
ShuffleOutcomes(seq) ==
  IF \A i \in 1..Len(seq) : seq[i].action = PassAction
  THEN {seq}
  ELSE {Rotate(seq, r) : r \in Rotations}

\* run_game 556-561: shuffle, then start the resolve loop
Shuffle ==
  /\ pc = "collect"
  /\ Len(player_actions) = num_players
  /\ player_actions' \in ShuffleOutcomes(player_actions)
  /\ tick_actions' = <<>>
  /\ all_passed' = TRUE
  /\ idx' = 0
  /\ pc' = "resolve"
  /\ UNCHANGED <<num_players, verbose, enable_logging, game_log, game,
                 consecutive_all_pass, outcomes, submitted>>

\* run_game 565-579 for one (player_id, action) pair: the game afterwards and
\* the tuple appended to tick_actions
resolve_entry(g, player_id, action) ==
  LET res == validate_action(g, player_id, action)
      final == IF res.valid THEN action ELSE PassAction
  IN  [game |-> IF res.valid THEN execute_action(g, player_id, final).game ELSE g,
       entry |-> [player_id |-> player_id, action |-> final,
                  is_valid |-> res.valid, error |-> res.error]]

\* ResolveOn with a game log that takes the trade in place of the trade
\* history
ResolveOn_LogTakesTrade(log, log2) ==
  /\ pc = "resolve"
  /\ idx < Len(player_actions)
  /\ LET player_id == player_actions[idx + 1].player_id
         action == player_actions[idx + 1].action
         res == validate_action(game, player_id, action)
     IN
     IF ~res.valid /\ verbose /\ ~action.isdict
     THEN \* line 568: action.get on a value that is not a dictionary
          /\ pc' = "AttributeError"
          /\ log2 = log
          /\ UNCHANGED <<game, idx, tick_actions, all_passed>>
     ELSE LET r == resolve_entry(game, player_id, action)
              trade == IF res.valid
                       THEN execute_action(game, player_id, action).trade
                       ELSE <<>>
          IN
          /\ tick_actions' = Append(tick_actions, r.entry)
          /\ all_passed' = IF r.entry.action.type # "pass" THEN FALSE ELSE all_passed
          /\ game' = IF trade # <<>> /\ log # <<>>
                     THEN [r.game EXCEPT !.trades = game.trades]
                     ELSE r.game
          /\ log2 = IF trade # <<>> /\ log # <<>>
                    THEN <<log_trade(log[1], trade[1])>>
                    ELSE log
          /\ idx' = idx + 1
          /\ pc' = pc
  /\ UNCHANGED <<num_players, verbose, enable_logging, consecutive_all_pass,
                 outcomes, player_actions, submitted>>

\* run_game 563-586: one iteration of the resolve loop; log is the game
\* log before and log2 the game log afterwards
ResolveOn(log, log2) ==
  /\ pc = "resolve"
  /\ idx < Len(player_actions)
  /\ LET player_id == player_actions[idx + 1].player_id
         action == player_actions[idx + 1].action
         res == validate_action(game, player_id, action)
     IN
     IF ~res.valid /\ verbose /\ ~action.isdict
     THEN \* line 568: action.get on a value that is not a dictionary
          /\ pc' = "AttributeError"
          /\ log2 = log
          /\ UNCHANGED <<game, idx, tick_actions, all_passed>>
     ELSE LET r == resolve_entry(game, player_id, action)
              trade == IF res.valid
                       THEN execute_action(game, player_id, action).trade
                       ELSE <<>>
          IN
          /\ tick_actions' = Append(tick_actions, r.entry)
          /\ all_passed' = IF r.entry.action.type # "pass" THEN FALSE ELSE all_passed
          /\ game' = r.game
          /\ log2 = IF trade # <<>> /\ log # <<>>
                    THEN <<log_trade(log[1], trade[1])>>
                    ELSE log
          /\ idx' = idx + 1
          /\ pc' = pc
  /\ UNCHANGED <<num_players, verbose, enable_logging, consecutive_all_pass,
                 outcomes, player_actions, submitted>>

Resolve == ResolveOn(game_log, game_log')

\* run_game 588-601 and the loop head 539-543: end of a tick; log is the
\* game log before and log2 the game log afterwards
EndTickOn(log, log2) ==
  /\ pc = "resolve"
  /\ idx = Len(player_actions)
  /\ log2 = IF log # <<>>
            THEN <<log_tick(log[1], game.current_tick, tick_actions)>>
            ELSE log
  /\ LET cap == IF all_passed THEN consecutive_all_pass + 1 ELSE 0
         stop == all_passed /\ cap >= CONSECUTIVE_PASS_LIMIT
     IN
     /\ consecutive_all_pass' = cap
     /\ IF stop \/ game.current_tick + 1 >= MAX_TICKS
        THEN /\ pc' = "score"
             /\ UNCHANGED <<game, outcomes, player_actions, idx, tick_actions,
                            all_passed>>
        ELSE \* next iteration: the locals of the finished tick are dead and
             \* are rebuilt at 543 and 560-561
             /\ game' = [game EXCEPT !.current_tick = @ + 1]
             /\ outcomes' = <<>>
             /\ player_actions' = <<>>
             /\ tick_actions' = <<>>
             /\ all_passed' = TRUE
             /\ idx' = 0
             /\ pc' = "collect"
  /\ UNCHANGED <<num_players, verbose, enable_logging, submitted>>

EndTick == EndTickOn(game_log, game_log')

\* run_game 603-626: scoring and return; log is the game log before and
\* log2 the game log afterwards
ScoreOn(log, log2) ==
  /\ pc = "score"
  /\ game' = [game EXCEPT !.final_scores = calculate_scores(game)]
  /\ log2 = IF log # <<>> THEN <<log_end(log[1], game')>> ELSE log
  /\ pc' = "done"
  /\ UNCHANGED <<num_players, verbose, enable_logging, consecutive_all_pass,
                 outcomes, player_actions, idx, tick_actions, all_passed, submitted>>

Score == ScoreOn(game_log, game_log')

Next ==
  \/ RejectPlayerCount
  \/ Setup
  \/ Collect
  \/ Shuffle
  \/ Resolve
  \/ EndTick
  \/ Score

Spec == Init /\ [][Next]_vars

(***************************************************************************)
(* run_game with policies that never pass.                                 *)
(***************************************************************************)
\* what a never-passing policy submits for a view: seat 0 outbids the best
\* bid for the first suit by one, seat 1 returns a value that is no
\* dictionary or a dictionary of unknown type, seat 2 raises, and the other
\* seats return a dictionary of unknown type
BusyOutcomes(state) ==
  IF state.position = 0
  THEN LET bid == state.books[SUITS[1]].bid
       IN  {BidAction(SUITS[1], IF bid = <<>> THEN 1 ELSE bid[1].price + 1)}
  ELSE IF state.position = 1 THEN {NotADict, UnknownTypeAction}
  ELSE IF state.position = 2 THEN {Raises}
  ELSE {UnknownTypeAction}

\* run_game 544-554 with the never-passing policies
CollectBusy ==
  /\ pc = "collect"
  /\ Len(player_actions) < num_players
  /\ LET player_id == Len(player_actions)
         state == get_game_state(game, player_id)
     IN
     \E o \in BusyOutcomes(state) :
       LET action == IF o.type = "raise" THEN PassAction ELSE o IN
       /\ outcomes' = Append(outcomes, o)
       /\ player_actions' = Append(player_actions,
                                   [player_id |-> player_id, action |-> action])
  /\ UNCHANGED <<num_players, verbose, enable_logging, game_log,
                 game, consecutive_all_pass, idx,
                 tick_actions, all_passed, submitted, pc>>

NextBusy ==
  \/ RejectPlayerCount
  \/ Setup
  \/ CollectBusy
  \/ Shuffle
  \/ Resolve
  \/ EndTick
  \/ Score

\* the interpreter keeps running run_game until it returns or raises
SpecBusy == Init /\ [][NextBusy]_vars /\ WF_vars(NextBusy)

(***************************************************************************)
(* run_game with policies that trade: an ask is left resting in tick 0 and *)
(* taken in tick 1 while other seats post asks and buy; ticks 2 and 3 do   *)
(* the same with bids and sells on a second suit.                          *)
(***************************************************************************)
\* the seats that take in ticks 1 and 3; the other seats quote
IsTaker(player_id) == player_id = 0 \/ player_id % 2 = 1
\* the non-pass outcomes of player_modules[player_id].get_action, by tick
TradeOutcomes(player_id, tick) ==
  IF tick = 0
  THEN (IF player_id = 0 THEN {AskAction(SUITS[1], p) : p \in Prices} ELSE {})
  ELSE IF tick = 1
  THEN (IF IsTaker(player_id) THEN {BuyAction(SUITS[1])}
        ELSE {AskAction(SUITS[1], p) : p \in Prices})
  ELSE IF tick = 2
  THEN (IF player_id = 0 THEN {BidAction(SUITS[2], p) : p \in Prices} ELSE {})
  ELSE IF tick = 3
  THEN (IF IsTaker(player_id) THEN {SellAction(SUITS[2])}
        ELSE {BidAction(SUITS[2], p) : p \in Prices})
  ELSE {}

InitTrade ==
  /\ num_players \in VALID_PLAYER_COUNTS
  /\ verbose = FALSE
  /\ game = FiggieGame(4)
  /\ consecutive_all_pass = 0
  /\ outcomes = <<>>
  /\ player_actions = <<>>
  /\ idx = 0
  /\ tick_actions = <<>>
  /\ all_passed = TRUE
  /\ submitted = 0
  /\ pc = "start"
  /\ enable_logging = FALSE
  /\ game_log = <<>>

\* run_game 544-554 with the trading policies
CollectTrade ==
  /\ pc = "collect"
  /\ Len(player_actions) < num_players
  /\ LET player_id == Len(player_actions) IN
     \E o \in {PassAction} \cup TradeOutcomes(player_id, game.current_tick) :
       /\ outcomes' = Append(outcomes, o)
       /\ player_actions' = Append(player_actions,
                                   [player_id |-> player_id, action |-> o])
  /\ UNCHANGED <<num_players, verbose, enable_logging, game_log,
                 game, consecutive_all_pass, idx,
                 tick_actions, all_passed, submitted, pc>>

NextTrade ==
  \/ Setup
  \/ CollectTrade
  \/ Shuffle
  \/ Resolve
  \/ EndTick
  \/ Score

SpecTrade == InitTrade /\ [][NextTrade]_vars

(***************************************************************************)
(* run_game with the game log enabled or disabled: trading policies that   *)
(* may also misbehave, scripted by tick, no bound on the submitted         *)
(* actions.                                                                *)
(***************************************************************************)
\* the non-pass outcomes of get_action: the trading script of ticks 0 and 1,
\* and a seat 2 that may misbehave in tick 0
LogOutcomes(player_id, tick) ==
  (IF tick \in {0, 1} THEN TradeOutcomes(player_id, tick) ELSE {})
  \cup (IF tick = 0 /\ player_id = 2 THEN FaultOutcomes ELSE {})

InitLog ==
  /\ num_players \in PlayerCounts
  /\ verbose \in BOOLEAN
  /\ enable_logging \in BOOLEAN
  /\ game_log = <<>>
  /\ game = FiggieGame(4)
  /\ consecutive_all_pass = 0
  /\ outcomes = <<>>
  /\ player_actions = <<>>
  /\ idx = 0
  /\ tick_actions = <<>>
  /\ all_passed = TRUE
  /\ submitted = 0
  /\ pc = "start"

\* run_game 544-554 with these policies
CollectLog ==
  /\ pc = "collect"
  /\ Len(player_actions) < num_players
  /\ LET player_id == Len(player_actions) IN
     \E o \in {PassAction} \cup LogOutcomes(player_id, game.current_tick) :
       LET action == IF o.type = "raise" THEN PassAction ELSE o IN
       /\ outcomes' = Append(outcomes, o)
       /\ player_actions' = Append(player_actions,
                                   [player_id |-> player_id, action |-> action])
  /\ UNCHANGED <<num_players, verbose, enable_logging, game_log,
                 game, consecutive_all_pass, idx,
                 tick_actions, all_passed, submitted, pc>>

NextLog ==
  \/ RejectPlayerCount
  \/ Setup
  \/ CollectLog
  \/ Shuffle
  \/ Resolve
  \/ EndTick
  \/ Score

SpecLog == InitLog /\ [][NextLog]_vars

(***************************************************************************)
(* The engine's functions called directly, as the test suite calls them:   *)
(* a dealt game, then validate_action and execute_action on chosen pairs,  *)
(* get_game_state and calculate_scores on the game they leave.             *)
(***************************************************************************)
\* calls of validate_action made on one game
MaxCalls == 3

\* a hand, in the order of SUITS
Hand(sp, cl, h, d) ==
  [s \in SuitSet |-> IF s = SUITS[1] THEN sp ELSE IF s = SUITS[2] THEN cl
                     ELSE IF s = SUITS[3] THEN h ELSE d]

\* outcomes of the two shuffles: the counts per suit and the hands dealt.
\* The first two give the goal-suit counts of the two official examples
\* (test_official_examples.py 20-134), the third a three-way tie.
DriverDeals ==
  {[counts |-> <<8, 10, 12, 10>>,
    hands |-> <<Hand(2, 3, 4, 1), Hand(0, 4, 3, 3), Hand(4, 0, 1, 5), Hand(2, 3, 4, 1)>>],
   [counts |-> <<10, 10, 8, 12>>,
    hands |-> <<Hand(2, 2, 1, 3), Hand(2, 2, 3, 1), Hand(2, 2, 0, 4), Hand(2, 2, 1, 3),
                Hand(2, 2, 3, 1)>>],
   [counts |-> <<10, 12, 8, 10>>,
    hands |-> <<Hand(1, 3, 2, 4), Hand(3, 3, 2, 2), Hand(3, 3, 2, 2), Hand(3, 3, 2, 2)>>]}

\* the cards of a hand in a row, suit by suit
RECURSIVE HandCards(_, _)
HandCards(hand, i) ==
  IF i > Len(SUITS) THEN <<>>
  ELSE [k \in 1..hand[SUITS[i]] |-> SUITS[i]] \o HandCards(hand, i + 1)

\* the order random.shuffle(deck) leaves the deck in when deal_cards deals
\* the given hands: card i goes to player i % n
DeckFor(hands) ==
  LET n == Len(hands)
      per == Len(HandCards(hands[1], 1))
  IN  [i \in 1..(n * per) |->
         HandCards(hands[((i - 1) % n) + 1], 1)[((i - 1) \div n) + 1]]

\* run_game 511-525: the game built from a deck and a deal
DealtGame(d) ==
  LET n == Len(d.hands)
      deck == create_deck(d.counts)
  IN  [FiggieGame(n) EXCEPT
         !.suit_counts = deck[1],
         !.goal_suit = deck[2],
         !.hands = deal_cards(DeckFor(d.hands), n),
         !.money = [i \in 0..(n - 1) |-> STARTING_MONEY - get_ante(n)],
         !.current_tick = 0]

\* the ticks the calls are made in (game.current_tick, set at 540)
DriverTicks == {0, 7}
\* the players the calls are made for, the suit and the prices they name
DriverPlayers == {0, 1}
DriverSuit == SUITS[1]
\* a second suit the calls post an ask on
DriverOtherSuit == SUITS[2]
DriverPrices == {0, 1, 2, 310, 311}

\* a bid or ask whose price is missing or no integer, an action without a
\* suit or with an unknown one, a dictionary without a type
NoIntPrice(type) ==
  [isdict |-> TRUE, type |-> type, suit |-> DriverSuit, price |-> 0, price_is_int |-> FALSE]
UnknownSuit(type) ==
  [isdict |-> TRUE, type |-> type, suit |-> "None", price |-> 1, price_is_int |-> TRUE]
MissingType ==
  [isdict |-> TRUE, type |-> "None", suit |-> DriverSuit, price |-> 1, price_is_int |-> TRUE]
MalformedActions ==
  {NotADict, UnknownTypeAction, MissingType}
  \cup {NoIntPrice(ty) : ty \in {"bid", "ask"}}
  \cup {UnknownSuit(ty) : ty \in {"bid", "ask", "buy", "sell"}}

\* the actions validate_action is called with
DriverActions ==
  {BidAction(DriverSuit, p) : p \in DriverPrices}
  \cup {AskAction(DriverSuit, p) : p \in DriverPrices}
  \cup {BuyAction(DriverSuit), SellAction(DriverSuit), PassAction}
  \cup {AskAction(DriverOtherSuit, 2)}
  \cup MalformedActions

InitDriver ==
  /\ num_players \in VALID_PLAYER_COUNTS
  /\ verbose = FALSE
  /\ game = FiggieGame(num_players)
  /\ consecutive_all_pass = 0
  /\ outcomes = <<>>
  /\ player_actions = <<>>
  /\ idx = 0
  /\ tick_actions = <<>>
  /\ all_passed = TRUE
  /\ submitted = 0
  /\ pc = "new"
  /\ enable_logging = FALSE
  /\ game_log = <<>>

\* a game is dealt
Deal ==
  /\ pc = "new"
  /\ \E d \in DriverDeals :
       /\ Len(d.hands) = num_players
       /\ \E tick \in DriverTicks :
            game' = [DealtGame(d) EXCEPT !.current_tick = tick]
  /\ pc' = "dealt"
  /\ UNCHANGED <<num_players, verbose, enable_logging, game_log,
                 consecutive_all_pass, outcomes,
                 player_actions, idx, tick_actions, all_passed, submitted>>

\* validate_action(game, player_id, action), then execute_action if it is
\* valid; player_actions holds the pair of the call, tick_actions its result
\* and outcomes what execute_action returned (a Trade or nothing)
Call ==
  /\ pc = "dealt"
  /\ idx < MaxCalls
  /\ \E player_id \in DriverPlayers, action \in DriverActions :
       LET res == validate_action(game, player_id, action)
           done == IF res.valid THEN execute_action(game, player_id, action)
                   ELSE [game |-> game, trade |-> <<>>]
       IN  /\ player_actions' = <<[player_id |-> player_id, action |-> action]>>
           /\ tick_actions' = <<[player_id |-> player_id, action |-> action,
                                 is_valid |-> res.valid, error |-> res.error]>>
           /\ outcomes' = done.trade
           /\ game' = done.game
  /\ idx' = idx + 1
  /\ UNCHANGED <<num_players, verbose, enable_logging, game_log,
                 consecutive_all_pass, all_passed,
                 submitted, pc>>

\* calculate_scores(game)
CallScores ==
  /\ pc = "dealt"
  /\ game' = [game EXCEPT !.final_scores = calculate_scores(game)]
  /\ pc' = "scored"
  /\ UNCHANGED <<num_players, verbose, enable_logging, game_log,
                 consecutive_all_pass, outcomes,
                 player_actions, idx, tick_actions, all_passed, submitted>>

NextDriver ==
  \/ Deal
  \/ Call
  \/ CallScores

SpecDriver == InitDriver /\ [][NextDriver]_vars

(***************************************************************************)
(* create_deck and deal_cards called directly: every outcome of the        *)
(* shuffle of the counts, a family of outcomes of the shuffle of the deck. *)
(***************************************************************************)
\* the outcomes of random.shuffle(counts): the orders of CARDS_PER_SUIT_OPTIONS
CountShuffles ==
  {c \in [1..4 -> Range(CARDS_PER_SUIT_OPTIONS)] :
     \A v \in Range(CARDS_PER_SUIT_OPTIONS) :
       Cardinality({i \in 1..4 : c[i] = v})
         = Cardinality({i \in 1..4 : CARDS_PER_SUIT_OPTIONS[i] = v})}

\* the cuts of the deck the model draws from
DeckCuts == {0, 3, 7, 11, 19, 26}
\* the outcomes of random.shuffle(deck) the model draws from
DeckShuffles(deck, n) ==
  {CutDeck(deck, c) : c \in DeckCuts} \cup {BlockedDeck(deck, n)}

\* the player counts deal_cards is called with
DealPlayerCounts == 3..6

InitDeck ==
  /\ num_players \in DealPlayerCounts
  /\ verbose = FALSE
  /\ game = FiggieGame(num_players)
  /\ consecutive_all_pass = 0
  /\ outcomes = <<>>
  /\ player_actions = <<>>
  /\ idx = 0
  /\ tick_actions = <<>>
  /\ all_passed = TRUE
  /\ submitted = 0
  /\ pc = "no_deck"
  /\ enable_logging = FALSE
  /\ game_log = <<>>

\* suit_counts, goal_suit = create_deck()
CreateDeck ==
  /\ pc = "no_deck"
  /\ \E counts \in CountShuffles :
       LET deck == create_deck(counts)
       IN  game' = [game EXCEPT !.suit_counts = deck[1], !.goal_suit = deck[2]]
  /\ pc' = "deck"
  /\ UNCHANGED <<num_players, verbose, enable_logging, game_log,
                 consecutive_all_pass, outcomes,
                 player_actions, idx, tick_actions, all_passed, submitted>>

\* hands = deal_cards(suit_counts, num_players)
DealCards ==
  /\ pc = "deck"
  /\ \E shuffled \in DeckShuffles(FlatDeck(game.suit_counts), num_players) :
       game' = [game EXCEPT !.hands = deal_cards(shuffled, num_players)]
  /\ pc' = "hands"
  /\ UNCHANGED <<num_players, verbose, enable_logging, game_log,
                 consecutive_all_pass, outcomes,
                 player_actions, idx, tick_actions, all_passed, submitted>>

NextDeck ==
  \/ CreateDeck
  \/ DealCards

SpecDeck == InitDeck /\ [][NextDeck]_vars

(***************************************************************************)
(* Properties.                                                             *)
(***************************************************************************)
Players == 0..(num_players - 1)
\* the game state has been built (run_game is past line 525)
Started == pc \notin {"start", "ValueError"}
\* the pairs of this tick resolved so far
Resolved == 1..Len(tick_actions)
IsQuote(entry, type, suit) ==
  entry.is_valid /\ entry.action.type = type /\ entry.action.suit = suit
\* the trades of the current tick
TickTrades == {t \in DOMAIN game.trades : game.trades[t].tick = game.current_tick}

\* C1: card conservation -- once the cards are dealt, in every state and for
\* every suit the hands of all players together hold exactly suit_counts[suit]
\* cards.
C1_CardConservation ==
  Started =>
    \A s \in SuitSet :
      SumPlayers([p \in Players |-> game.hands[p][s]], num_players)
        = game.suit_counts[s]

\* a card has moved: a trade is recorded and its buyer holds more cards than
\* floor(40 / num_players)
C1_Witness ==
  /\ Started
  /\ Len(game.trades) > 0
  /\ \E p \in Players :
       SumOver(game.hands[p], SuitSet) > 40 \div num_players

\* C2: money conservation -- from the post-ante state on, the money of all
\* players sums to num_players * 350 - 200.
C2_MoneyConservation ==
  Started => SumPlayers(game.money, num_players) = num_players * STARTING_MONEY - POT

\* a trade has moved money: a seller holds more than the post-ante amount
C2_Witness ==
  /\ Started
  /\ Len(game.trades) > 0
  /\ \E p \in Players : game.money[p] > STARTING_MONEY - get_ante(num_players)

\* C3: whole-market clear -- in the state right after an executed buy or
\* sell, the bid and the ask of every suit are the empty quote (price 0,
\* owner -1).
C3_WholeMarketClear ==
  (/\ pc = "resolve"
   /\ Len(tick_actions) > 0
   /\ tick_actions[Len(tick_actions)].is_valid
   /\ tick_actions[Len(tick_actions)].action.type \in {"buy", "sell"})
  => \A s \in SuitSet :
       /\ game.books[s].bid = EmptyQuote
       /\ game.books[s].ask = EmptyQuote

\* the state right after a trade on one suit, in a tick in which a quote was
\* posted on another suit before the trade
C3_Witness ==
  /\ pc = "resolve"
  /\ Len(tick_actions) > 1
  /\ LET last == tick_actions[Len(tick_actions)] IN
     /\ last.is_valid
     /\ last.action.type \in {"buy", "sell"}
     /\ \E j \in 1..(Len(tick_actions) - 1) :
          /\ tick_actions[j].is_valid
          /\ tick_actions[j].action.type \in {"bid", "ask"}
          /\ tick_actions[j].action.suit # last.action.suit

\* C4: zero-sum payout -- in every terminal state the final scores sum to 0.
C4_ZeroSum ==
  pc = "done" => SumPlayers(game.final_scores, num_players) = 0

\* a terminal state after a trade in which three players tie for the most
\* goal cards and the remainder does not divide evenly among them
C4_Witness ==
  /\ pc = "done"
  /\ Len(game.trades) > 0
  /\ Cardinality(winners(game)) = 3
  /\ remainder(game) % 3 # 0

\* C5: no crossed book -- whenever a suit has both a valid bid and a valid
\* ask, the bid price is below the ask price.
C5_NoCrossedBook ==
  Started =>
    \A s \in SuitSet :
      (Quote_is_valid(game.books[s].bid) /\ Quote_is_valid(game.books[s].ask))
      => game.books[s].bid.price < game.books[s].ask.price

\* a book holding a bid and an ask at once
C5_Witness ==
  /\ Started
  /\ \E s \in SuitSet :
       Quote_is_valid(game.books[s].bid) /\ Quote_is_valid(game.books[s].ask)

\* the pair about to be resolved is an ask that meets the bid just executed:
\* the last resolved pair is a valid bid on a suit whose ask side is empty,
\* and the next pair is an ask for that suit at a price no higher than the
\* bid, submitted by another player who holds a card of the suit
AskMeetsFreshBid ==
  /\ pc = "resolve"
  /\ 0 < idx
  /\ idx < Len(player_actions)
  /\ idx = Len(tick_actions)
  /\ LET prev == tick_actions[idx]
         nxt == player_actions[idx + 1]
     IN  /\ prev.is_valid
         /\ prev.action.type = "bid"
         /\ ~Quote_is_valid(game.books[prev.action.suit].ask)
         /\ nxt.action.isdict
         /\ nxt.action.type = "ask"
         /\ nxt.action.suit = prev.action.suit
         /\ nxt.action.price_is_int
         /\ nxt.action.price > 0
         /\ nxt.action.price <= prev.action.price
         /\ nxt.player_id # prev.player_id
         /\ game.hands[nxt.player_id][prev.action.suit] > 0

\* the bid just executed was posted on an empty book: the round is in its
\* first tick and no quote for the suit was accepted before it
BidWasOnEmptyBook ==
  /\ game.current_tick = 0
  /\ \A j \in 1..(idx - 1) :
       ~(/\ tick_actions[j].is_valid
         /\ tick_actions[j].action.type \in {"bid", "ask"}
         /\ tick_actions[j].action.suit = tick_actions[idx].action.suit)

\* C6 as stated: a bid at price P executed on an empty book, followed at once
\* in the same tick by an ask for the same suit at a price <= P from another
\* player who holds the suit, makes the resolution step append a Trade
\* between the two players.
C6_CrossingResolvesToTrade ==
  [][(AskMeetsFreshBid /\ BidWasOnEmptyBook) =>
       /\ Len(game'.trades) = Len(game.trades) + 1
       /\ LET t == game'.trades[Len(game'.trades)] IN
          /\ t.suit = tick_actions[idx].action.suit
          /\ t.buyer_id = tick_actions[idx].player_id
          /\ t.seller_id = player_actions[idx + 1].player_id
          /\ t.tick = game.current_tick]_vars

\* C6 amended: such an ask is rejected as crossing the bid ("use sell
\* instead") and downgraded to pass; the step appends no trade, changes
\* nothing in the game state, and the bid stays resting at its price.
C6_CrossingAskIsRejected ==
  [][AskMeetsFreshBid =>
       /\ game' = game
       /\ game'.books[tick_actions[idx].action.suit].bid
            = Quote(tick_actions[idx].action.price, tick_actions[idx].player_id)
       /\ tick_actions' = Append(tick_actions,
            [player_id |-> player_actions[idx + 1].player_id,
             action |-> PassAction,
             is_valid |-> FALSE,
             error |-> "Ask would cross bid. Use 'sell' instead."])
       /\ idx' = idx + 1
       /\ pc' = "resolve"]_vars

\* the crossing ask has just been resolved: the pair before it is a bid
\* executed on the empty book of the first tick, the ask was submitted at a
\* price no higher by another player holding the suit
C6_Witness ==
  /\ pc = "resolve"
  /\ game.current_tick = 0
  /\ idx = Len(tick_actions)
  /\ idx > 1
  /\ LET prev == tick_actions[idx - 1]
         sub == player_actions[idx]
     IN  /\ prev.is_valid
         /\ prev.action.type = "bid"
         /\ \A j \in 1..(idx - 2) : ~tick_actions[j].is_valid
                                    \/ tick_actions[j].action.type = "pass"
         /\ sub.action.isdict
         /\ sub.action.type = "ask"
         /\ sub.action.suit = prev.action.suit
         /\ sub.action.price <= prev.action.price
         /\ sub.player_id # prev.player_id
         /\ game.hands[sub.player_id][prev.action.suit] > 0
         /\ game.books[prev.action.suit].bid
              = Quote(prev.action.price, prev.player_id)

\* the positions of the current tick at which a take of the given type on
\* the given suit was submitted and has been resolved
Takes(type, s) ==
  {i \in Resolved : /\ player_actions[i].action.isdict
                    /\ player_actions[i].action.type = type
                    /\ player_actions[i].action.suit = s}
\* a quote of the given type on the suit was accepted strictly between i and j
QuotedBetween(type, s, i, j) ==
  \E k \in Resolved : i < k /\ k < j /\ IsQuote(tick_actions[k], type, s)
\* every take submitted after an executed take of the same kind on the same
\* suit, with no new quote of the matching kind accepted in between, is
\* invalid and downgraded to pass
LaterTakesLose(type, quote, s) ==
  \A i, j \in Takes(type, s) :
    (i < j /\ tick_actions[i].is_valid /\ ~QuotedBetween(quote, s, i, j))
    => /\ ~tick_actions[j].is_valid
       /\ tick_actions[j].action = PassAction
\* the trades recorded in this tick are exactly the takes executed in it
OneTradePerExecutedTake ==
  Cardinality(TickTrades)
    = Cardinality({i \in Resolved : /\ tick_actions[i].is_valid
                                    /\ tick_actions[i].action.type \in {"buy", "sell"}})

EntryOf(player_id) ==
  CHOOSE e \in Range(tick_actions) : e.player_id = player_id

\* C8: policy faults never escape -- whatever a policy does (raise, or return
\* any value, a non-dictionary included), verbose or not, run_game does not
\* raise; at the end of the tick every player has an entry, and the entry of
\* a faulty player is pass.
C8_PolicyFaultsNeverEscape ==
  /\ pc # "AttributeError"
  /\ (Started /\ pc \in {"resolve", "score", "done"} /\ idx = Len(player_actions))
     => /\ Len(tick_actions) = num_players
        /\ \A i \in 1..Len(outcomes) :
             outcomes[i] \in FaultOutcomes
             => EntryOf(i - 1).action = PassAction

\* the pair about to be resolved is rejected by validate_action
RejectedNext ==
  /\ pc = "resolve"
  /\ idx < Len(player_actions)
  /\ ~validate_action(game, player_actions[idx + 1].player_id,
                      player_actions[idx + 1].action).valid

\* C9: rejected actions have no effect -- an action validate_action rejects
\* is replaced by pass and is not retried; hands, money, books and trades
\* stay as they were, and resolution goes on with the next pair of the tick.
C9_RejectedActionsHaveNoEffect ==
  [][RejectedNext =>
       /\ game' = game
       /\ player_actions' = player_actions
       /\ Len(tick_actions') = Len(tick_actions) + 1
       /\ tick_actions'[Len(tick_actions')].player_id
            = player_actions[idx + 1].player_id
       /\ tick_actions'[Len(tick_actions')].action = PassAction
       /\ ~tick_actions'[Len(tick_actions')].is_valid
       /\ idx' = idx + 1
       /\ pc' = "resolve"]_vars

\* a step that ends a tick, and a step that leaves the tick loop
TickEnds == pc = "resolve" /\ pc' \in {"collect", "score"}
RoundStops == pc \in {"collect", "resolve"} /\ pc' \notin {"collect", "resolve"}
\* every player's final action of the tick is pass
AllFinalPass ==
  /\ Len(tick_actions) = num_players
  /\ \A i \in 1..Len(tick_actions) : tick_actions[i].action.type = "pass"

\* C10: all-pass termination -- at the end of a tick the counter is one more
\* than before when every final action of the tick is pass and zero
\* otherwise, and it changes at no other time; the round stops at the end of
\* the first tick at which the counter reaches CONSECUTIVE_PASS_LIMIT, and
\* before MAX_TICKS it stops for no other reason.
C10_AllPassTermination ==
  [][/\ TickEnds =>
          /\ consecutive_all_pass'
               = IF AllFinalPass THEN consecutive_all_pass + 1 ELSE 0
          /\ (pc' = "score") <=> \/ consecutive_all_pass' >= CONSECUTIVE_PASS_LIMIT
                                 \/ game.current_tick + 1 >= MAX_TICKS
     /\ ~TickEnds => consecutive_all_pass' = consecutive_all_pass
     /\ RoundStops =>
          /\ pc' = "score"
          /\ \/ consecutive_all_pass' >= CONSECUTIVE_PASS_LIMIT
             \/ game.current_tick + 1 >= MAX_TICKS]_vars

\* C11: bounded termination -- whatever the policies do (never passing
\* included), the ticks of a round are numbered 0..MAX_TICKS-1 and the round
\* always reaches scoring.
C11_BoundedTermination ==
  /\ [](Started => game.current_tick \in 0..(MAX_TICKS - 1))
  /\ [](Started => <>(pc = "done"))

\* a game has been dealt for the direct calls
Dealt == pc \in {"dealt", "scored"}
\* the goal suits and deck distributions a game can have
GoalSuits == SuitSet
Distributions ==
  {[s \in SuitSet |-> ShuffledCounts(r)[CHOOSE i \in 1..4 : SUITS[i] = s]] : r \in 0..3}
\* the fields of a view
ViewFields(state) == DOMAIN state

\* C12: the goal suit is hidden -- in every reachable state the view of every
\* player has no goal-suit field and no deck-distribution field, and it is
\* the same view for every goal suit and every deck distribution the game
\* could have instead.
C12_GoalSuitHidden ==
  Dealt =>
    \A p \in Players :
      /\ ViewFields(get_game_state(game, p))
           \cap {"goal_suit", "suit_counts", "goal", "distribution"} = {}
      /\ \A gs \in GoalSuits, sc \in Distributions :
           get_game_state([game EXCEPT !.goal_suit = gs, !.suit_counts = sc], p)
             = get_game_state(game, p)

\* a view with something in it: a trade is on record and a quote is live
C12_Witness ==
  /\ Dealt
  /\ Len(game.trades) > 0
  /\ \E p \in Players :
       LET state == get_game_state(game, p) IN
       /\ Len(state.trades) > 0
       /\ \E s \in SuitSet : state.books[s].bid # <<>>

\* the last direct call: its pair and its result
LastCall == tick_actions[1]
Called == pc = "dealt" /\ Len(tick_actions) = 1
\* the well-formed actions of a type on a known suit, with the malformed
\* prices among them
ActionsOf(type) ==
  {a \in DriverActions : a.isdict /\ a.type = type /\ a.suit \in SuitSet}
\* the reasons validate_action gives the players for rejecting them
Reasons(type) ==
  {validate_action(game, p, a).error : p \in Players, a \in ActionsOf(type)} \ {""}

\* C13: bid validation -- for a known suit, bid(suit, price) by p is accepted
\* exactly when the price is a positive integer, is at most money[p], is
\* above the live bid of the suit if there is one and below its live ask if
\* there is one.
C13_BidValidation ==
  pc = "dealt" =>
    \A p \in Players : \A a \in ActionsOf("bid") :
      LET book == game.books[a.suit] IN
      validate_action(game, p, a).valid
        <=> /\ a.price_is_int
            /\ a.price > 0
            /\ a.price <= game.money[p]
            /\ Quote_is_valid(book.bid) => a.price > book.bid.price
            /\ Quote_is_valid(book.ask) => a.price < book.ask.price

\* a bid has just been accepted, into a book where a bid can fail for each
\* of the four reasons
C13_Witness ==
  /\ Called
  /\ LastCall.is_valid
  /\ LastCall.action.type = "bid"
  /\ Cardinality(Reasons("bid")) = 4

\* C14: ask validation -- for a known suit, ask(suit, price) by p is accepted
\* exactly when the price is a positive integer, p holds a card of the suit,
\* the price is below the live ask of the suit if there is one and above its
\* live bid if there is one.
C14_AskValidation ==
  pc = "dealt" =>
    \A p \in Players : \A a \in ActionsOf("ask") :
      LET book == game.books[a.suit] IN
      validate_action(game, p, a).valid
        <=> /\ a.price_is_int
            /\ a.price > 0
            /\ game.hands[p][a.suit] >= 1
            /\ Quote_is_valid(book.ask) => a.price < book.ask.price
            /\ Quote_is_valid(book.bid) => a.price > book.bid.price

\* an ask has just been accepted, into a book where an ask can fail for each
\* of the four reasons
C14_Witness ==
  /\ Called
  /\ LastCall.is_valid
  /\ LastCall.action.type = "ask"
  /\ Cardinality(Reasons("ask")) = 4

\* C15: buy validation -- buy(suit) by p is accepted exactly when the suit
\* has a live ask, p is not its owner and money[p] is at least its price.
C15_BuyValidation ==
  pc = "dealt" =>
    \A p \in Players : \A a \in ActionsOf("buy") :
      LET ask == game.books[a.suit].ask IN
      /\ validate_action(game, p, a).valid
           <=> /\ Quote_is_valid(ask)
               /\ ask.player_id # p
               /\ game.money[p] >= ask.price
      /\ (\/ ~Quote_is_valid(ask)
          \/ ask.player_id = p
          \/ game.money[p] < ask.price) => ~validate_action(game, p, a).valid

\* a buy has just been accepted and paid for; the trade cleared the book, so
\* the only reason left for refusing a buy is that there is no ask
C15_Witness ==
  /\ Called
  /\ LastCall.action.type = "buy"
  /\ LastCall.is_valid
  /\ Len(outcomes) = 1
  /\ game.money[LastCall.player_id] < STARTING_MONEY - get_ante(num_players)
  /\ Reasons("buy") = {"No ask available"}

\* C16: sell validation -- sell(suit) by p is accepted exactly when the suit
\* has a live bid, p is not its owner and p holds a card of the suit.
C16_SellValidation ==
  pc = "dealt" =>
    \A p \in Players : \A a \in ActionsOf("sell") :
      LET bid == game.books[a.suit].bid IN
      /\ validate_action(game, p, a).valid
           <=> /\ Quote_is_valid(bid)
               /\ bid.player_id # p
               /\ game.hands[p][a.suit] >= 1
      /\ (\/ ~Quote_is_valid(bid)
          \/ bid.player_id = p
          \/ game.hands[p][a.suit] = 0) => ~validate_action(game, p, a).valid

\* a sell has just been accepted and paid; the trade cleared the book, so
\* the only reason left for refusing a sell is that there is no bid
C16_Witness ==
  /\ Called
  /\ LastCall.action.type = "sell"
  /\ LastCall.is_valid
  /\ Len(outcomes) = 1
  /\ game.money[LastCall.player_id] > STARTING_MONEY - get_ante(num_players)
  /\ Reasons("sell") = {"No bid available"}

\* what the claim calls malformed: no dictionary, a missing or unknown type,
\* a missing or unknown suit on a bid, ask, buy or sell, a missing,
\* non-integer or non-positive price on a bid or ask
Malformed(a) ==
  \/ ~a.isdict
  \/ a.type \notin {"bid", "ask", "buy", "sell", "pass"}
  \/ a.type \in {"bid", "ask", "buy", "sell"} /\ a.suit \notin SuitSet
  \/ a.type \in {"bid", "ask"} /\ (~a.price_is_int \/ a.price <= 0)

\* C17: malformed actions are invalid -- validate_action rejects every
\* malformed action with a non-empty reason, and accepts pass for every
\* player in every state.
C17_MalformedActionsInvalid ==
  pc = "dealt" =>
    \A p \in Players :
      /\ \A a \in DriverActions :
           Malformed(a) => /\ ~validate_action(game, p, a).valid
                           /\ validate_action(game, p, a).error # ""
      /\ validate_action(game, p, PassAction).valid

\* a malformed action has just been refused on a game that already holds a
\* quote, and each kind of malformed action is refused for its own reason
C17_Witness ==
  /\ Called
  /\ idx > 1
  /\ Malformed(LastCall.action)
  /\ ~LastCall.is_valid
  /\ \E s \in SuitSet : Quote_is_valid(game.books[s].bid)
  /\ Cardinality({validate_action(game, 0, a).error :
                    a \in {x \in DriverActions : Malformed(x)}}) = 5

\* a step that is a direct call of an accepted action of the given type
AcceptedCall(type) ==
  /\ pc = "dealt"
  /\ idx' = idx + 1
  /\ tick_actions'[1].is_valid
  /\ tick_actions'[1].action.type = type

\* the effect of a trade of one card of suit s at price a from seller to
\* buyer: money and card move, the Trade is appended and returned, and
\* nothing else in hands or money changes
TradeEffect(s, a, buyer, seller) ==
  /\ game'.money[buyer] = game.money[buyer] - a
  /\ game'.money[seller] = game.money[seller] + a
  /\ game'.hands[buyer][s] = game.hands[buyer][s] + 1
  /\ game'.hands[seller][s] = game.hands[seller][s] - 1
  /\ game'.trades = Append(game.trades,
       [suit |-> s, price |-> a, buyer_id |-> buyer, seller_id |-> seller,
        tick |-> game.current_tick])
  /\ outcomes' = <<game'.trades[Len(game'.trades)]>>
  /\ \A q \in Players : \A u \in SuitSet :
       (q \notin {buyer, seller} \/ u # s) => game'.hands[q][u] = game.hands[q][u]
  /\ \A q \in Players \ {buyer, seller} : game'.money[q] = game.money[q]

\* C18: trade execution -- a valid buy(suit) by p executes at the resting ask
\* price with the ask's owner as seller, a valid sell(suit) by p at the
\* resting bid price with the bid's owner as buyer: the price moves from
\* buyer to seller, one card of the suit from seller to buyer, one Trade
\* tagged with the current tick is appended and returned, and no other hand
\* or money changes.
C18_TradeExecution ==
  [][/\ AcceptedCall("buy") =>
          LET s == tick_actions'[1].action.suit IN
          TradeEffect(s, game.books[s].ask.price,
                      tick_actions'[1].player_id, game.books[s].ask.player_id)
     /\ AcceptedCall("sell") =>
          LET s == tick_actions'[1].action.suit IN
          TradeEffect(s, game.books[s].bid.price,
                      game.books[s].bid.player_id, tick_actions'[1].player_id)]_vars

\* a sell has just executed in a tick other than the first, at a price above
\* one: the returned Trade names the bidder as buyer
C18_Witness ==
  /\ Called
  /\ LastCall.is_valid
  /\ LastCall.action.type = "sell"
  /\ game.current_tick > 0
  /\ Len(outcomes) = 1
  /\ outcomes[1].seller_id = LastCall.player_id
  /\ outcomes[1].buyer_id # LastCall.player_id
  /\ outcomes[1].price > 1
  /\ outcomes[1].tick = game.current_tick

\* the scored game: goal-suit counts, the players with the most, the
\* remainder of the pot, and what a player got out of the remainder
GoalCount(p) == game.hands[p][game.goal_suit]
Majority == {p \in Players : \A q \in Players : GoalCount(q) <= GoalCount(p)}
Remainder ==
  POT - CARD_BONUS * SumPlayers([p \in Players |-> GoalCount(p)], num_players)
RemainderShare(p) ==
  game.final_scores[p] - (game.money[p] - STARTING_MONEY) - CARD_BONUS * GoalCount(p)

\* C19: fair tie split -- with k players tied for the most goal cards, each
\* of them gets floor(remainder/k) or one more, the shares sum to the
\* remainder, the others get nothing of it, and the extra units go to the
\* (remainder mod k) tied players with the lowest ids.
C19_FairTieSplit ==
  pc = "scored" =>
    LET k == Cardinality(Majority) IN
    /\ \A p \in Players \ Majority : RemainderShare(p) = 0
    /\ \A p \in Majority :
         RemainderShare(p) \in {Remainder \div k, (Remainder \div k) + 1}
    /\ SumPlayers([p \in Players |-> RemainderShare(p)], num_players) = Remainder
    /\ {p \in Majority : RemainderShare(p) = (Remainder \div k) + 1}
         = {p \in Majority :
              Cardinality({w \in Majority : w < p}) < Remainder % k}

\* a three-way tie scored with a remainder that leaves one unit over, the
\* player with the lowest id not being among the tied
C19_Witness ==
  /\ pc = "scored"
  /\ Cardinality(Majority) = 3
  /\ Remainder % 3 = 1
  /\ 0 \notin Majority
  /\ RemainderShare(1) = RemainderShare(2) + 1

\* the scores of the two official examples
Example1Scores == <<-40, -20, 100, -40>>
Example2Scores == <<-30, 50, -40, -30, 50>>
\* every player holds m and the goal counts are as given
ExampleGame(m, counts) ==
  /\ num_players = Len(counts)
  /\ \A p \in Players : game.money[p] = m /\ GoalCount(p) = counts[p + 1]

\* C20: score formula -- score[p] = (money[p] - 350) + 10 * goal cards of p
\* + p's share of the remainder if p holds the most goal cards; a sole
\* holder of the most gets the whole remainder; 4 players at 300 with goal
\* counts 1,3,5,1 score -40,-20,100,-40 and 5 players at 310 with goal
\* counts 1,3,0,1,3 score -30,50,-40,-30,50.
C20_ScoreFormula ==
  pc = "scored" =>
    LET k == Cardinality(Majority)
        rank(p) == Cardinality({w \in Majority : w < p})
        share(p) == IF p \in Majority
                    THEN (Remainder \div k) + (IF rank(p) < Remainder % k THEN 1 ELSE 0)
                    ELSE 0
    IN
    /\ \A p \in Players :
         game.final_scores[p]
           = (game.money[p] - 350) + 10 * GoalCount(p) + share(p)
    /\ k = 1 => \A p \in Majority :
         game.final_scores[p] = (game.money[p] - 350) + 10 * GoalCount(p) + Remainder
    /\ ExampleGame(300, <<1, 3, 5, 1>>)
         => \A p \in Players : game.final_scores[p] = Example1Scores[p + 1]
    /\ ExampleGame(310, <<1, 3, 0, 1, 3>>)
         => \A p \in Players : game.final_scores[p] = Example2Scores[p + 1]

\* the first official example has been scored
C20_Witness ==
  /\ pc = "scored"
  /\ ExampleGame(300, <<1, 3, 5, 1>>)
  /\ game.final_scores[2] = 100

\* a deck has been created, hands have been dealt from it (direct calls)
DeckMade == pc \in {"deck", "hands"}
HandsDealt == pc = "hands"
\* the suits of a deck that have k cards
SuitsWith(suit_counts, k) == {s \in SuitSet : suit_counts[s] = k}
\* the colour of a suit
ColourOf(s) == IF s \in Range(BLACK_SUITS) THEN "black" ELSE "red"
\* the number of cards in a hand
HandSize(hand) == SumOver(hand, SuitSet)

\* C21: deck shape -- every deck create_deck returns gives the four suits
\* the counts 8, 10, 10 and 12 in some order: exactly one suit has 12 cards,
\* exactly one has 8, exactly two have 10, and the deck has 40 cards.
C21_DeckShape ==
  DeckMade =>
    /\ DOMAIN game.suit_counts = SuitSet
    /\ Cardinality(SuitsWith(game.suit_counts, 12)) = 1
    /\ Cardinality(SuitsWith(game.suit_counts, 8)) = 1
    /\ Cardinality(SuitsWith(game.suit_counts, 10)) = 2
    /\ SumOver(game.suit_counts, SuitSet) = 40
    /\ Len(FlatDeck(game.suit_counts)) = 40

\* a deck whose counts are not in the order of CARDS_PER_SUIT_OPTIONS
C21_Witness ==
  /\ pc = "deck"
  /\ game.suit_counts[SUITS[1]] = 12
  /\ game.suit_counts[SUITS[4]] = 8

\* C22: goal suit derivation -- for each of the 12 distributions the goal
\* suit is the other suit of the colour of the 12-card suit: never the
\* 12-card suit, always with 8 or 10 cards, so that the remainder of the pot
\* is 120 when the goal suit is the 8-card suit and 100 otherwise.
C22_GoalSuitDerivation ==
  /\ Cardinality(CountShuffles) = 12
  /\ DeckMade =>
       LET twelve == CHOOSE s \in SuitSet : game.suit_counts[s] = 12
           count == game.suit_counts[game.goal_suit]
       IN  /\ game.goal_suit \in SuitSet \ {twelve}
           /\ ColourOf(game.goal_suit) = ColourOf(twelve)
           /\ count \in {8, 10}
           /\ POT - CARD_BONUS * count = (IF count = 8 THEN 120 ELSE 100)
           /\ (HandsDealt /\ num_players \in VALID_PLAYER_COUNTS) =>
                 remainder(game) = (IF count = 8 THEN 120 ELSE 100)

\* hands dealt from a deck whose goal suit is the 8-card suit
C22_Witness ==
  /\ HandsDealt
  /\ num_players \in VALID_PLAYER_COUNTS
  /\ game.suit_counts[game.goal_suit] = 8
  /\ remainder(game) = 120

\* C23: even deal -- deal_cards gives every player exactly
\* floor(40 / num_players) cards (10 with 4 players, 8 with 5) whatever the
\* shuffle, and with 4 or 5 players no card is left undealt: for every suit
\* the hands together hold the suit's count of the distribution.
C23_EvenDeal ==
  HandsDealt =>
    /\ DOMAIN game.hands = 0..(num_players - 1)
    /\ \A p \in 0..(num_players - 1) :
         /\ HandSize(game.hands[p]) = 40 \div num_players
         /\ num_players = 4 => HandSize(game.hands[p]) = 10
         /\ num_players = 5 => HandSize(game.hands[p]) = 8
    /\ num_players \in VALID_PLAYER_COUNTS =>
         \A s \in SuitSet :
           SumPlayers([p \in 0..(num_players - 1) |-> game.hands[p][s]], num_players)
             = game.suit_counts[s]

\* five hands from a shuffle that leaves some player without a suit
C23_Witness ==
  /\ HandsDealt
  /\ num_players = 5
  /\ \E p \in 0..4, s \in SuitSet : game.hands[p][s] = 0
  /\ \E p \in 0..4, s \in SuitSet : game.hands[p][s] >= 4

\* nothing of a round exists: no deck, no hands, no money, no policy polled
NothingBuilt ==
  /\ game.suit_counts = <<>>
  /\ game.goal_suit = ""
  /\ game.hands = <<>>
  /\ game.money = <<>>
  /\ game.trades = <<>>
  /\ outcomes = <<>>
  /\ player_actions = <<>>
  /\ tick_actions = <<>>

\* C24: an invalid player count is rejected up front -- run_game called with
\* a number of policies other than 4 or 5 fails with an error before any deck
\* is created, any card dealt, any policy invoked or any game state built;
\* get_ante likewise fails for every count other than 4 (ante 50) and 5
\* (ante 40).
C24_InvalidPlayerCountRejected ==
  /\ num_players \notin {4, 5} =>
       /\ pc \in {"start", "ValueError"}
       /\ NothingBuilt
       /\ pc = "start" => (ENABLED RejectPlayerCount /\ ~ENABLED Setup)
  /\ pc = "ValueError" => num_players \notin {4, 5}
  /\ (pc = "start" /\ num_players \in {4, 5}) => ~ENABLED RejectPlayerCount
  /\ get_ante(4) = 50
  /\ get_ante(5) = 40
  /\ \A n \in PlayerCounts \ {4, 5} : get_ante(n) = -1

\* run_game has failed on six policies
C24_Witness ==
  /\ pc = "ValueError"
  /\ num_players = 6
  /\ NothingBuilt

\* a take that was turned down because the quote is the taker's own
OwnQuoteRejections ==
  {i \in 1..Len(tick_actions) :
     /\ ~tick_actions[i].is_valid
     /\ tick_actions[i].error \in {"Cannot buy from yourself", "Cannot sell to yourself"}}

\* C25: no self-trade ever -- in every reachable state every Trade record has
\* a buyer different from its seller, whatever quotes the same player has
\* posted on both sides of a book and whatever order the tick's actions are
\* resolved in.
C25_NoSelfTrade ==
  Started =>
    \A i \in 1..Len(game.trades) :
      /\ game.trades[i].buyer_id # game.trades[i].seller_id
      /\ game.trades[i].buyer_id \in Players
      /\ game.trades[i].seller_id \in Players

\* in one tick a player's take of their own quote was turned down and
\* another player's take of the same quote traded
C25_Witness ==
  /\ pc = "resolve"
  /\ OwnQuoteRejections # {}
  /\ \E i \in OwnQuoteRejections, k \in 1..Len(game.trades) :
       /\ game.trades[k].tick = game.current_tick
       /\ tick_actions[i].player_id \in {game.trades[k].buyer_id, game.trades[k].seller_id}

\* the draws of the starter bot's random calls
Lucks == 0..5

\* C26: starter bot compatibility -- for every view get_game_state produces
\* in a reachable game state, the starter bot's get_action returns, without
\* raising, an action that validate_action accepts for that player in that
\* state.
C26_StarterBotCompatible ==
  Dealt =>
    \A p \in Players, luck \in Lucks :
      LET action == get_action(get_game_state(game, p), luck)
      IN  /\ action # RaisesKeyError
          /\ validate_action(game, p, action).valid

\* final scores have been computed
Scored == game.final_scores # <<>>
\* run_game has been left after the game state was built
RoundOver == Started /\ pc \notin {"collect", "resolve", "score"}
\* the step that computes the final scores
ScoringStep == game'.final_scores # game.final_scores

\* C27: terminal is final -- in every round scoring happens exactly once,
\* after the last resolved tick, and once the final scores are computed no
\* policy is invoked, no action is validated or executed, and hands, money,
\* books and trades never change again.
C27_TerminalIsFinal ==
  /\ [](RoundOver => Scored)
  /\ [][/\ ScoringStep =>
             /\ ~Scored
             /\ pc = "score" /\ pc' = "done"
             /\ idx = Len(player_actions)
             /\ Len(tick_actions) = num_players
             /\ game'.final_scores = calculate_scores(game)
             /\ game' = [game EXCEPT !.final_scores = game'.final_scores]
        /\ Scored =>
             /\ game' = game
             /\ outcomes' = outcomes
             /\ player_actions' = player_actions
             /\ tick_actions' = tick_actions
             /\ pc' = pc]_vars

\* C28: terminal flag -- game_over is false while ticks are being resolved
\* and true once the terminating condition has been reached and final_scores
\* have been computed by run_game.
C28_TerminalFlag ==
  Started =>
    /\ pc \in {"collect", "resolve"} => ~game.game_over
    /\ Scored => game.game_over

\* what every player's view of a game shows alike
Market(g) ==
  LET state == get_game_state(g, 0)
  IN  [books |-> state.books, trades |-> state.trades, tick |-> state.tick]
\* the views of two players differ in position, hand and money at most
SharedMarket(g) ==
  \A p \in 0..(g.num_players - 1) :
    LET state == get_game_state(g, p)
    IN  /\ state.books = Market(g).books
        /\ state.trades = Market(g).trades
        /\ state.tick = Market(g).tick
        /\ state.num_players = g.num_players

\* C29: consistent snapshot -- within one tick every policy is invoked before
\* any action of that tick is executed, so the views of all players in a tick
\* show the same books, trade history and tick index (they differ only in
\* position, hand and money), and these equal the state at the end of the
\* previous tick.
C29_ConsistentSnapshot ==
  [][/\ pc = "collect" =>
          /\ tick_actions = <<>>
          /\ game' = game
          /\ SharedMarket(game)
          /\ \A p \in Players : get_game_state(game', p) = get_game_state(game, p)
     /\ (pc = "resolve" /\ Len(tick_actions') > Len(tick_actions)) =>
          Len(player_actions) = num_players
     /\ (pc = "resolve" /\ pc' = "collect") =>
          /\ game' = [game EXCEPT !.current_tick = game.current_tick + 1]
          /\ Market(game').books = Market(game).books
          /\ Market(game').trades = Market(game).trades
          /\ Market(game').tick = Market(game).tick + 1
          /\ player_actions' = <<>>]_vars

\* in the second tick two policies have been polled, the first with an ask
\* the views do not show yet; they show the bid left by the first tick
C29_Witness ==
  /\ pc = "collect"
  /\ game.current_tick = 1
  /\ Len(player_actions) >= 2
  /\ player_actions[1].action.type = "ask"
  /\ Market(game).books[player_actions[1].action.suit].ask = <<>>
  /\ \E s \in SuitSet : Market(game).books[s].bid # <<>>

\* the effect of posting a quote: the named side of the suit's book is the
\* new quote and nothing else changes
PostEffect(side) ==
  LET a == tick_actions'[1].action
      p == tick_actions'[1].player_id
      q == [price |-> a.price, player_id |-> p]
  IN  /\ game'.books[a.suit][side] = q
      /\ \A s \in SuitSet :
           /\ game'.books[s].last_trade_price = game.books[s].last_trade_price
           /\ (s # a.suit \/ side # "bid") => game'.books[s].bid = game.books[s].bid
           /\ (s # a.suit \/ side # "ask") => game'.books[s].ask = game.books[s].ask
      /\ game'.hands = game.hands
      /\ game'.money = game.money
      /\ game'.trades = game.trades
      /\ game' = [game EXCEPT !.books[a.suit][side] = q]
      /\ outcomes' = <<>>

\* C30: quote posting frame -- executing a valid bid(suit, price) by p sets
\* that suit's bid to the price with owner p and changes nothing else: the
\* suit's ask, the other suits' quotes, every last-trade price, hands, money
\* and the trade history are unchanged and no Trade is returned; symmetrically
\* a valid ask sets only that suit's ask.
C30_QuotePostingFrame ==
  [][/\ AcceptedCall("bid") => PostEffect("bid")
     /\ AcceptedCall("ask") => PostEffect("ask")]_vars

\* a bid has just been posted under another player's resting ask while the
\* other suit carries an ask
C30_Witness ==
  /\ Called
  /\ LastCall.is_valid
  /\ LastCall.action.type = "bid"
  /\ LastCall.action.suit = DriverSuit
  /\ game.books[DriverSuit].bid = Quote(LastCall.action.price, LastCall.player_id)
  /\ Quote_is_valid(game.books[DriverSuit].ask)
  /\ game.books[DriverSuit].ask.player_id # LastCall.player_id
  /\ Quote_is_valid(game.books[DriverOtherSuit].ask)

\* the trades of the history executed in tick t
TradesOfTick(t) == {i \in 1..Len(game.trades) : game.trades[i].tick = t}

\* C31: append-only trade history -- across every step of a round the trade
\* history only grows by appending at the end; existing records are never
\* changed, reordered or removed, each record's tick is the tick in which it
\* was executed, and the ticks of the history are non-decreasing.
C31_AppendOnlyHistory ==
  /\ [](\A i \in 1..(Len(game.trades) - 1) :
          game.trades[i].tick <= game.trades[i + 1].tick)
  /\ [][\/ game'.trades = game.trades
        \/ /\ pc = "resolve"
           /\ Len(game'.trades) = Len(game.trades) + 1
           /\ SubSeq(game'.trades, 1, Len(game.trades)) = game.trades
           /\ game'.trades[Len(game'.trades)].tick = game.current_tick
           /\ game'.current_tick = game.current_tick]_vars

\* a history with two trades of one tick followed by a trade of a later tick
C31_Witness ==
  /\ Len(game.trades) >= 3
  /\ game.trades[1].tick = game.trades[2].tick
  /\ game.trades[Len(game.trades)].tick > game.trades[1].tick

\* C34: hands stay non-negative -- in every reachable state hands[p][suit] is
\* at least 0 for every player and suit, although sell checks only the
\* seller's own holding and buy does not check at execution time that the
\* ask's owner still holds a card of the suit.
C34_HandsNonNegative ==
  Dealt =>
    \A p \in Players : \A s \in SuitSet : game.hands[p][s] >= 0

\* a player has sold their last card of the suit and their next ask on it
\* has been turned down
C34_Witness ==
  /\ Called
  /\ ~LastCall.is_valid
  /\ LastCall.error = "Cannot ask, don't have any"
  /\ game.hands[LastCall.player_id][DriverSuit] = 0
  /\ \E i \in 1..Len(game.trades) :
       /\ game.trades[i].seller_id = LastCall.player_id
       /\ game.trades[i].suit = DriverSuit

\* C35: money stays non-negative -- in every reachable state money[p] is at
\* least 0 for every player, although sell does not check that the bid's
\* owner can still afford the bid price when the sell executes.
C35_MoneyNonNegative ==
  Dealt =>
    \A p \in Players : game.money[p] >= 0

\* a sell has just executed into a bid of all the bidder's money
C35_Witness ==
  /\ Called
  /\ LastCall.is_valid
  /\ LastCall.action.type = "sell"
  /\ Len(outcomes) = 1
  /\ game.money[outcomes[1].buyer_id] = 0

\* C36: resting quotes stay backed -- in every reachable state every live bid
\* has a price of at most the current money of its owner and every live ask
\* is owned by a player who currently holds at least one card of the suit,
\* because hands and money change only in trades and every trade clears all
\* quotes.
C36_QuotesStayBacked ==
  /\ Dealt =>
       \A s \in SuitSet :
         /\ Quote_is_valid(game.books[s].bid) =>
              game.books[s].bid.price <= game.money[game.books[s].bid.player_id]
         /\ Quote_is_valid(game.books[s].ask) =>
              game.hands[game.books[s].ask.player_id][s] >= 1
  /\ (Called /\ Len(outcomes) = 1) =>
       \A s \in SuitSet :
         ~Quote_is_valid(game.books[s].bid) /\ ~Quote_is_valid(game.books[s].ask)

\* after a trade its buyer, who paid for it, has a bid resting again
C36_Witness ==
  /\ Called
  /\ Len(game.trades) = 1
  /\ LastCall.is_valid
  /\ LastCall.action.type = "bid"
  /\ LastCall.player_id = game.trades[1].buyer_id
  /\ game.books[DriverSuit].bid.player_id = LastCall.player_id
  /\ game.money[LastCall.player_id] < STARTING_MONEY - get_ante(num_players)

\* C37: trades per tick are bounded -- each player's action is validated and
\* executed at most once per tick, and because every trade clears all
\* quotes, the number of Trade records carrying the same tick index never
\* exceeds ceil(num_players / 2): 2 for 4 players, 3 for 5 players.
C37_TradesPerTickBounded ==
  Started =>
    /\ Len(tick_actions) <= num_players
    /\ \A i, j \in 1..Len(tick_actions) :
         tick_actions[i].player_id = tick_actions[j].player_id => i = j
    /\ \A i, j \in 1..Len(player_actions) :
         player_actions[i].player_id = player_actions[j].player_id => i = j
    /\ \A t \in 0..game.current_tick :
         /\ 2 * Cardinality(TradesOfTick(t)) <= num_players + 1
         /\ num_players = 4 => Cardinality(TradesOfTick(t)) <= 2
         /\ num_players = 5 => Cardinality(TradesOfTick(t)) <= 3

\* five players, three trades in one tick: the bound is met
C37_Witness ==
  /\ num_players = 5
  /\ pc = "resolve"
  /\ Cardinality(TradesOfTick(game.current_tick)) = 3
  /\ Len(tick_actions) = 5

\* the trades of suit s in the history, and the price of the latest one
TradesOfSuit(s) == {i \in 1..Len(game.trades) : game.trades[i].suit = s}
LatestPrice(s) ==
  LET last == CHOOSE i \in TradesOfSuit(s) : \A j \in TradesOfSuit(s) : j <= i
  IN  game.trades[last].price

\* C38: the last-trade price tracks the history -- in every reachable state
\* and for every suit, the book's last_trade_price is None if the history
\* holds no trade of the suit and otherwise the price of the most recent
\* trade of the suit; clearing quotes after a trade never resets it and a
\* trade in one suit never changes another suit's last_trade_price.
C38_LastTradePriceTracksHistory ==
  Started =>
    \A s \in SuitSet :
      game.books[s].last_trade_price
        = IF TradesOfSuit(s) = {} THEN None ELSE LatestPrice(s)

\* two trades of the first suit at different prices, then a trade of the
\* second suit: both books remember their own latest price
C38_Witness ==
  /\ Cardinality(TradesOfSuit(SUITS[1])) >= 2
  /\ game.trades[1].suit = SUITS[1]
  /\ game.trades[1].price # LatestPrice(SUITS[1])
  /\ TradesOfSuit(SUITS[2]) # {}
  /\ game.books[SUITS[1]].last_trade_price # game.books[SUITS[2]].last_trade_price
  /\ game.books[SUITS[3]].last_trade_price = None

\* the step resolves one more action of the tick, and the entry it appends
ResolvesOne == pc = "resolve" /\ Len(tick_actions') = Len(tick_actions) + 1
NewEntry == tick_actions'[Len(tick_actions')]
\* the take just resolved executed against quote q of suit s as it rested
\* in the book when the take was resolved
BoundTo(q, s, buyer, seller) ==
  /\ Quote_is_valid(q)
  /\ Len(game'.trades) = Len(game.trades) + 1
  /\ game'.trades[Len(game'.trades)]
       = [suit |-> s, price |-> q.price, buyer_id |-> buyer, seller_id |-> seller,
          tick |-> game.current_tick]
  /\ game.money[buyer] >= q.price
  /\ game.hands[seller][s] >= 1

\* C39: takers bind to the quote resting at resolution time, not to the one
\* they saw -- every accepted buy executes against the ask in the book at the
\* moment it is resolved and every accepted sell against the bid in the book
\* at that moment; so a buy decided on a view showing an ask at price A from
\* player X can execute later in the tick against an ask another player
\* posted during the tick at another price, a higher one included, as long as
\* the buyer can afford it, and symmetrically for sell.
C39_TakersBindAtResolution ==
  [][(ResolvesOne /\ NewEntry.is_valid) =>
       /\ NewEntry.action.type = "buy" =>
            LET s == NewEntry.action.suit IN
            BoundTo(game.books[s].ask, s, NewEntry.player_id, game.books[s].ask.player_id)
       /\ NewEntry.action.type = "sell" =>
            LET s == NewEntry.action.suit IN
            BoundTo(game.books[s].bid, s, game.books[s].bid.player_id, NewEntry.player_id)]_vars

\* trades i and j of one tick and suit, j after i, between disjoint parties
LaterTake(i, j) ==
  /\ i < j
  /\ game.trades[i].tick = game.trades[j].tick
  /\ game.trades[i].suit = game.trades[j].suit
  /\ {game.trades[i].buyer_id, game.trades[i].seller_id}
       \cap {game.trades[j].buyer_id, game.trades[j].seller_id} = {}

\* in tick 1 seat 0's ask, resting since tick 0 and shown in every view of
\* tick 1, was bought, and a later buy of the tick paid a higher price to
\* another seller; in tick 3 seat 0's resting bid was sold into and a later
\* sell of the tick received a lower price from another bidder
C39_Witness ==
  /\ game.current_tick = 3
  /\ \E i, j \in TradesOfTick(1) :
       /\ LaterTake(i, j)
       /\ game.trades[i].seller_id = 0
       /\ game.trades[j].price > game.trades[i].price
  /\ \E i, j \in TradesOfTick(3) :
       /\ LaterTake(i, j)
       /\ game.trades[i].buyer_id = 0
       /\ game.trades[j].price < game.trades[i].price

\* the step clears the whole market after a trade
MarketCleared ==
  /\ Len(game'.trades) = Len(game.trades) + 1
  /\ \A s \in SuitSet :
       ~Quote_is_valid(game'.books[s].bid) /\ ~Quote_is_valid(game'.books[s].ask)

\* C40: quotes only improve between trades -- for every suit, between two
\* consecutive trades (of any suit) the live bid prices are strictly
\* increasing and the live ask prices strictly decreasing, and a live quote
\* is never removed or replaced except by a strictly improving quote on the
\* same side or by the whole-market clear of a trade: there is no expiry and
\* no cancel, also across tick boundaries.
C40_QuotesOnlyImprove ==
  [][\A s \in SuitSet :
       LET bid == game.books[s].bid
           ask == game.books[s].ask
       IN  /\ game'.books[s].bid # bid =>
                \/ /\ Quote_is_valid(game'.books[s].bid)
                   /\ Quote_is_valid(bid) => game'.books[s].bid.price > bid.price
                   /\ game'.trades = game.trades
                \/ MarketCleared
           /\ game'.books[s].ask # ask =>
                \/ /\ Quote_is_valid(game'.books[s].ask)
                   /\ Quote_is_valid(ask) => game'.books[s].ask.price < ask.price
                   /\ game'.trades = game.trades
                \/ MarketCleared
           /\ Len(game'.trades) > Len(game.trades) => MarketCleared]_vars

\* in the second tick a bid has been raised by another player: two accepted
\* bids on a suit, the book showing the higher one, and no trade so far
C40_Witness ==
  /\ pc = "resolve"
  /\ game.current_tick = 1
  /\ game.trades = <<>>
  /\ \E i, j \in 1..Len(tick_actions) :
       /\ i < j
       /\ tick_actions[i].is_valid /\ tick_actions[j].is_valid
       /\ tick_actions[i].action.type = "bid" /\ tick_actions[j].action.type = "bid"
       /\ tick_actions[i].action.suit = tick_actions[j].action.suit
       /\ tick_actions[i].action.price < tick_actions[j].action.price
       /\ game.books[tick_actions[j].action.suit].bid
            = Quote(tick_actions[j].action.price, tick_actions[j].player_id)
  /\ \E s \in SuitSet : Quote_is_valid(game.books[s].ask)

\* a step of run_game as the run without a game log takes it, on the same
\* deal, the same returned actions and the same resolution order
UnloggedStep ==
  \/ RejectPlayerCount
  \/ SetupOn(FALSE, <<>>)
  \/ CollectLog
  \/ Shuffle
  \/ ResolveOn(<<>>, <<>>)
  \/ EndTickOn(<<>>, <<>>)
  \/ ScoreOn(<<>>, <<>>)

\* the events of one type in the game log
LoggedEvents(type) ==
  {i \in 1..Len(game_log[1].events) : game_log[1].events[i].type = type}

\* C32: logging is a pure observer: whether or not the game log is enabled,
\* every step run_game takes changes the game (hands, money, books, trade
\* history, tick counter, final scores), the collected actions and the
\* position in the loop exactly as the run without a log changes them from
\* the same state on the same deal, returned action and resolution order,
\* and the logged run can take a step wherever the run without a log can; so
\* both runs go through the same games and return the same scores, trade
\* count and tick count
C32_LoggingIsPureObserver ==
  /\ [][UnloggedStep]_vars
  /\ [](ENABLED UnloggedStep => ENABLED NextLog)

\* a logged round that ended with a trade and a rejected action in its log and
\* the final scores recorded
C32_Witness ==
  /\ enable_logging
  /\ pc = "done"
  /\ game.trades # <<>>
  /\ Cardinality(LoggedEvents("trade")) = Len(game.trades)
  /\ \E i \in LoggedEvents("tick") :
       \E k \in 1..Len(game_log[1].events[i].actions) :
         ~game_log[1].events[i].actions[k].valid
  /\ game_log[1].scores = game.final_scores
  /\ game_log[1].initial_hands # game_log[1].final_hands

\* the game run_game builds from a deal (suit counts, goal suit and hands)
GameOfDeal(suit_counts, goal_suit, hands) ==
  [FiggieGame(num_players) EXCEPT
     !.suit_counts = suit_counts,
     !.goal_suit = goal_suit,
     !.hands = hands,
     !.money = [i \in 0..(num_players - 1) |->
                  STARTING_MONEY - get_ante(num_players)],
     !.current_tick = 0]

\* C33: determinism given the random choices -- every step of a round leads
\* to the state that the deal, the actions the policies returned and the
\* shuffled order of the tick determine: the game after setup is the game of
\* the deal, polling leaves the game alone, resolving the next pair of the
\* shuffled order gives the game and the entry that validate_action and
\* execute_action compute for that pair, the end of a tick is decided by the
\* entries of the tick, the streak and the tick counter, and scoring gives
\* calculate_scores of the game; so two runs that agree on the deal, the
\* actions and the orders agree on the state after every tick, the number of
\* ticks, the trade history and the final scores.
C33_DeterminismGivenRandomChoices ==
  [][/\ (pc = "start" /\ pc' # "ValueError") =>
          /\ game' = GameOfDeal(game'.suit_counts, game'.goal_suit, game'.hands)
          /\ pc' = "collect"
     /\ pc = "collect" =>
          /\ game' = game
          /\ pc' = IF Len(player_actions) = num_players THEN "resolve" ELSE "collect"
     /\ (pc = "resolve" /\ idx < Len(player_actions)) =>
          LET r == resolve_entry(game, player_actions[idx + 1].player_id,
                                 player_actions[idx + 1].action)
          IN  /\ game' = r.game
              /\ tick_actions' = Append(tick_actions, r.entry)
              /\ player_actions' = player_actions
              /\ idx' = idx + 1
              /\ pc' = "resolve"
     /\ (pc = "resolve" /\ idx = Len(player_actions)) =>
          LET passed == \A i \in 1..Len(tick_actions) :
                          tick_actions[i].action.type = "pass"
              streak == IF passed THEN consecutive_all_pass + 1 ELSE 0
              last == \/ streak >= CONSECUTIVE_PASS_LIMIT
                      \/ game.current_tick + 1 >= MAX_TICKS
          IN  /\ consecutive_all_pass' = streak
              /\ pc' = IF last THEN "score" ELSE "collect"
              /\ game' = IF last THEN game
                         ELSE [game EXCEPT !.current_tick = @ + 1]
     /\ pc = "score" =>
          /\ game' = [game EXCEPT !.final_scores = calculate_scores(game)]
          /\ pc' = "done"]_vars

====
